---------------------------- MODULE Spec2Model ----------------------------
(***************************************************************************)
(* The UserOperation validation simulator (SimulatorImpl) of               *)
(* crates/rundler/src/common/simulation.rs as a state machine: one call of *)
(* simulate_validation, cut at its suspension points (the block-hash call, *)
(* the tracer call, the two joined futures of check_contracts).            *)
(*                                                                         *)
(* Encodings.  Option<T>: None is <<>>, Some(x) is <<x>>.  Addresses,      *)
(* slots, hashes, opcodes, messages and stakes are small naturals.  A      *)
(* violation is [kind, args]: kind is the variant's name, args the         *)
(* variant's fields flattened to a tuple of naturals in declaration order, *)
(* so that the derived Ord is the variant index followed by the            *)
(* lexicographic order of args.                                            *)
(***************************************************************************)
EXTENDS Integers, Sequences, FiniteSets, TLC

None == <<>>

Some(x) == <<x>>

IsSome(o) == o # <<>>

Unwrap(o) == o[1]

\* ---------------------------------------------------------------- settings

\* Settings (a constructor argument of SimulatorImpl::new); the thresholds are
\* scaled down, the comparisons of is_staked are kept.
sim_settings == [min_unstake_delay |-> 2, min_stake_value |-> 2, max_verification_gas |-> 5]

\* entry_point.address()
entry_point_address == 1

\* ---------------------------------------------------------------- entities

EntityTypes == {"Factory", "Account", "Paymaster", "Aggregator"}

\* Position of an EntityType in its enumeration (derived Ord of EntityType).
EntityTypeOrd(kind) ==
    CASE kind = "Factory" -> 0
      [] kind = "Account" -> 1
      [] kind = "Paymaster" -> 2
      [] kind = "Aggregator" -> 3

\* struct Entity { kind, address }
Entity(kind, address) == [kind |-> kind, address |-> address]

\* The fields of an Entity, flattened for the derived Ord.
EntityArgs(entity) == <<EntityTypeOrd(entity.kind), entity.address>>

\* Option<Address>, flattened for the derived Ord (None < Some(_)).
OptionArgs(o) == IF IsSome(o) THEN <<1, Unwrap(o)>> ELSE <<0>>

\* Mutant of entity_type_from_simulation_phase: the first two phases swapped.
entity_type_from_simulation_phase_Swapped(i) ==
    CASE i = 0 -> Some("Account")
      [] i = 1 -> Some("Factory")
      [] i = 2 -> Some("Paymaster")
      [] OTHER -> None

\* fn entity_type_from_simulation_phase(i: usize) -> Option<EntityType>
entity_type_from_simulation_phase(i) ==
    CASE i = 0 -> Some("Factory")
      [] i = 1 -> Some("Account")
      [] i = 2 -> Some("Paymaster")
      [] OTHER -> None

\* ---------------------------------------------------------------- violations

\* enum SimulationViolation, in declaration order.
ViolationKinds ==
    << "InvalidSignature", "UnintendedRevertWithMessage", "UsedForbiddenOpcode",
       "UsedForbiddenPrecompile", "AccessedUndeployedContract",
       "FactoryCalledCreate2Twice", "InvalidStorageAccess",
       "CalledBannedEntryPointMethod", "CallHadValue", "CodeHashChanged",
       "NotStaked", "UnintendedRevert", "DidNotRevert", "WrongNumberOfPhases",
       "OutOfGas", "AggregatorValidationFailed" >>

\* The variant index of a violation kind.
ViolationOrd(kind) == CHOOSE i \in 1..Len(ViolationKinds) : ViolationKinds[i] = kind

Violation(kind, args) == [kind |-> kind, args |-> args]

InvalidSignature == Violation("InvalidSignature", <<>>)

UnintendedRevertWithMessage(entity_type, message, address) ==
    Violation("UnintendedRevertWithMessage",
              <<EntityTypeOrd(entity_type), message>> \o OptionArgs(address))

UsedForbiddenOpcode(entity, contract, opcode) ==
    Violation("UsedForbiddenOpcode", EntityArgs(entity) \o <<contract, opcode>>)

UsedForbiddenPrecompile(entity, contract, precompile) ==
    Violation("UsedForbiddenPrecompile", EntityArgs(entity) \o <<contract, precompile>>)

AccessedUndeployedContract(entity, address) ==
    Violation("AccessedUndeployedContract", EntityArgs(entity) \o <<address>>)

FactoryCalledCreate2Twice(address) ==
    Violation("FactoryCalledCreate2Twice", <<address>>)

\* storage_slot is StorageSlot { address, slot }
InvalidStorageAccess(entity, storage_slot) ==
    Violation("InvalidStorageAccess",
              EntityArgs(entity) \o <<storage_slot.address, storage_slot.slot>>)

CalledBannedEntryPointMethod(entity) ==
    Violation("CalledBannedEntryPointMethod", EntityArgs(entity))

CallHadValue(entity) == Violation("CallHadValue", EntityArgs(entity))

CodeHashChanged == Violation("CodeHashChanged", <<>>)

NotStaked(entity, min_stake, min_unstake_delay) ==
    Violation("NotStaked", EntityArgs(entity) \o <<min_stake, min_unstake_delay>>)

UnintendedRevert(entity_type) ==
    Violation("UnintendedRevert", <<EntityTypeOrd(entity_type)>>)

DidNotRevert == Violation("DidNotRevert", <<>>)

WrongNumberOfPhases(count) == Violation("WrongNumberOfPhases", <<count>>)

OutOfGas(entity) == Violation("OutOfGas", EntityArgs(entity))

AggregatorValidationFailed == Violation("AggregatorValidationFailed", <<>>)

\* Lexicographic "strictly less" on tuples of naturals.
RECURSIVE LexLess(_, _)
LexLess(s, t) ==
    IF t = <<>> THEN FALSE
    ELSE IF s = <<>> THEN TRUE
    ELSE IF s[1] # t[1] THEN s[1] < t[1]
    ELSE LexLess(Tail(s), Tail(t))

\* Mutant of ViolationLess: the variant index is not compared.
ViolationLess_ByArgs(a, b) == LexLess(a.args, b.args)

\* #[derive(Ord)] on SimulationViolation: variant index, then the fields.
ViolationLess(a, b) ==
    IF a.kind # b.kind THEN ViolationOrd(a.kind) < ViolationOrd(b.kind)
    ELSE LexLess(a.args, b.args)

\* Insert v into the sorted sequence s, after the elements not greater than it.
RECURSIVE SortedInsert(_, _)
SortedInsert(s, v) ==
    IF s = <<>> THEN <<v>>
    ELSE IF ViolationLess(v, s[1]) THEN <<v>> \o s
    ELSE <<s[1]>> \o SortedInsert(Tail(s), v)

\* violations.sort(): a stable sort by the derived Ord.
RECURSIVE SortViolations(_)
SortViolations(s) ==
    IF s = <<>> THEN <<>>
    ELSE SortedInsert(SortViolations(SubSeq(s, 1, Len(s) - 1)), s[Len(s)])

\* ---------------------------------------------------------------- staking

StakeInfo(stake, unstake_delay_sec) ==
    [stake |-> stake, unstake_delay_sec |-> unstake_delay_sec]

\* Mutant of is_staked: the two thresholds are exclusive.
is_staked_Strict(info, settings) ==
    /\ info.stake > settings.min_stake_value
    /\ info.unstake_delay_sec > settings.min_unstake_delay

\* fn is_staked(info: StakeInfo, sim_settings: Settings) -> bool
is_staked(info, settings) ==
    /\ info.stake >= settings.min_stake_value
    /\ info.unstake_delay_sec >= settings.min_unstake_delay

\* ---------------------------------------------------------------- storage

\* AssociatedSlotsByAddress::is_associated_slot: slots_by_address maps an
\* address to the set of slots associated with it.
is_associated_slot(slots_by_address, address, slot) ==
    /\ address \in DOMAIN slots_by_address
    /\ slot \in slots_by_address[address]

\* struct GetStorageRestrictionArgs
GetStorageRestrictionArgs(slots, unstaked_creation, entry_point, entity, sender, accessed, slot) ==
    [slots_by_address |-> slots,
     is_unstaked_wallet_creation |-> unstaked_creation,
     entry_point_address |-> entry_point,
     entity_address |-> entity,
     sender_address |-> sender,
     accessed_address |-> accessed,
     slot |-> slot]

\* Mutant of get_storage_restriction: the sender's own storage is classified
\* as any other address is.
get_storage_restriction_NoRule1(args) ==
    IF is_associated_slot(args.slots_by_address, args.sender_address, args.slot)
    THEN IF \/ args.accessed_address = args.entry_point_address
            \/ ~args.is_unstaked_wallet_creation
         THEN "Allowed"
         ELSE "NeedsStake"
    ELSE IF \/ args.accessed_address = args.entity_address
            \/ is_associated_slot(args.slots_by_address, args.entity_address, args.slot)
    THEN "NeedsStake"
    ELSE "Banned"

\* Mutant of get_storage_restriction: the sender's associated storage is
\* allowed only at the entry point and outside an unstaked wallet creation.
get_storage_restriction_And(args) ==
    IF args.accessed_address = args.sender_address THEN "Allowed"
    ELSE IF is_associated_slot(args.slots_by_address, args.sender_address, args.slot)
    THEN IF /\ args.accessed_address = args.entry_point_address
            /\ ~args.is_unstaked_wallet_creation
         THEN "Allowed"
         ELSE "NeedsStake"
    ELSE IF \/ args.accessed_address = args.entity_address
            \/ is_associated_slot(args.slots_by_address, args.entity_address, args.slot)
    THEN "NeedsStake"
    ELSE "Banned"

\* Mutant of get_storage_restriction: during an unstaked wallet creation the
\* sender's associated storage outside the entry point is banned.
get_storage_restriction_Banned(args) ==
    IF args.accessed_address = args.sender_address THEN "Allowed"
    ELSE IF is_associated_slot(args.slots_by_address, args.sender_address, args.slot)
    THEN IF \/ args.accessed_address = args.entry_point_address
            \/ ~args.is_unstaked_wallet_creation
         THEN "Allowed"
         ELSE "Banned"
    ELSE IF \/ args.accessed_address = args.entity_address
            \/ is_associated_slot(args.slots_by_address, args.entity_address, args.slot)
    THEN "NeedsStake"
    ELSE "Banned"

\* Mutant of get_storage_restriction: the sender's associated storage is free
\* only at the entry point, wallet creation or not.
get_storage_restriction_EntryPointOnly(args) ==
    IF args.accessed_address = args.sender_address THEN "Allowed"
    ELSE IF is_associated_slot(args.slots_by_address, args.sender_address, args.slot)
    THEN IF args.accessed_address = args.entry_point_address
         THEN "Allowed"
         ELSE "NeedsStake"
    ELSE IF \/ args.accessed_address = args.entity_address
            \/ is_associated_slot(args.slots_by_address, args.entity_address, args.slot)
    THEN "NeedsStake"
    ELSE "Banned"

\* fn get_storage_restriction(args) -> StorageRestriction
get_storage_restriction(args) ==
    IF args.accessed_address = args.sender_address THEN "Allowed"
    ELSE IF is_associated_slot(args.slots_by_address, args.sender_address, args.slot)
    THEN IF \/ args.accessed_address = args.entry_point_address
            \/ ~args.is_unstaked_wallet_creation
         THEN "Allowed"
         ELSE "NeedsStake"
    ELSE IF \/ args.accessed_address = args.entity_address
            \/ is_associated_slot(args.slots_by_address, args.entity_address, args.slot)
    THEN "NeedsStake"
    ELSE "Banned"

\* ---------------------------------------------------------------- entity infos

\* Mutant of EntityInfo: every entity counts as staked.
EntityInfo_AlwaysStaked(address, staked) == [address |-> address, is_staked |-> TRUE]

EntityInfo(address, staked) == [address |-> address, is_staked |-> staked]

\* Mutant of EntityInfos_new: an absent factory or paymaster becomes an entity
\* at the zero address.
EntityInfos_new_Zero(factory_address, sender_address, paymaster_address, entry_point_out, settings) ==
    [factory |->
        Some(EntityInfo(IF IsSome(factory_address) THEN Unwrap(factory_address) ELSE 0,
                        is_staked(entry_point_out.factory_info, settings))),
     sender |-> EntityInfo(sender_address, is_staked(entry_point_out.sender_info, settings)),
     paymaster |->
        Some(EntityInfo(IF IsSome(paymaster_address) THEN Unwrap(paymaster_address) ELSE 0,
                        is_staked(entry_point_out.paymaster_info, settings)))]

\* EntityInfos::new
EntityInfos_new(factory_address, sender_address, paymaster_address, entry_point_out, settings) ==
    [factory |->
        IF IsSome(factory_address)
        THEN Some(EntityInfo(Unwrap(factory_address),
                             is_staked(entry_point_out.factory_info, settings)))
        ELSE None,
     sender |-> EntityInfo(sender_address, is_staked(entry_point_out.sender_info, settings)),
     paymaster |->
        IF IsSome(paymaster_address)
        THEN Some(EntityInfo(Unwrap(paymaster_address),
                             is_staked(entry_point_out.paymaster_info, settings)))
        ELSE None]

\* EntityInfos::get
EntityInfos_get(entity_infos, entity) ==
    CASE entity = "Factory" -> entity_infos.factory
      [] entity = "Account" -> Some(entity_infos.sender)
      [] entity = "Paymaster" -> entity_infos.paymaster
      [] OTHER -> None

\* Mutant of EntityInfos_sender_address: the entry point's address is taken
\* for the sender's.
EntityInfos_sender_address_EntryPoint(entity_infos) == entry_point_address

\* EntityInfos::sender_address
EntityInfos_sender_address(entity_infos) == entity_infos.sender.address

\* ---------------------------------------------------------------- decoding

\* The revert payload is [selector, data]: the error selector and, when the
\* rest of the payload is a well-formed encoding of that error, Some(body).

\* FailedOp::decode_hex: Some(failed_op) when the payload is a FailedOp.
FailedOp_decode_hex(revert_data) ==
    IF revert_data.selector = "FailedOp" /\ IsSome(revert_data.data)
    THEN Some(Unwrap(revert_data.data))
    ELSE None

\* ValidationOutput::decode_hex: Some(output) when the payload is a
\* ValidationResult.
ValidationOutput_decode_hex(revert_data) ==
    IF revert_data.selector = "ValidationResult" /\ IsSome(revert_data.data)
    THEN Some(Unwrap(revert_data.data))
    ELSE None

\* parse_combined_tracer_str: a combined string is the tuple of its
\* ':'-separated parts; it parses when there are exactly two.
parse_combined_tracer_str(combined) ==
    IF Len(combined) = 2 THEN Some(<<combined[1], combined[2]>>) ELSE None

\* ---------------------------------------------------------------- create_context

\* Mutants of TooManyPhases: the bound off by one, either way.
TooManyPhases_Above4(num_phases) == num_phases > 4

TooManyPhases_From3(num_phases) == num_phases >= 3

\* The test for too many phases (line 131).
TooManyPhases(num_phases) == num_phases > 3

\* Mutant of TooFewPhases: two phases are enough.
TooFewPhases_Below2(num_phases) == num_phases < 2

\* The test for too few phases (line 166).
TooFewPhases(num_phases) == num_phases < 3

\* Mutant of EntityAddr: the factory's and the paymaster's address swapped.
EntityAddr_Swapped(last_entity, factory_address, sender_address, paymaster_address) ==
    CASE last_entity = "Factory" -> paymaster_address
      [] last_entity = "Paymaster" -> factory_address
      [] last_entity = "Account" -> Some(sender_address)
      [] OTHER -> None

\* The address reported with a FailedOp revert (lines 140-145).
EntityAddr(last_entity, factory_address, sender_address, paymaster_address) ==
    CASE last_entity = "Factory" -> factory_address
      [] last_entity = "Paymaster" -> paymaster_address
      [] last_entity = "Account" -> Some(sender_address)
      [] OTHER -> None

\* The part of create_context after the tracer has answered with trace
\* (lines 125-178): Ok(context), Err(violations), or a panic: with no phase,
\* phases.len() - 1 is no phase index (it overflows, or wraps to usize::MAX)
\* and the unwrap of line 137 aborts the task.
create_context(user_op, block_id, trace) ==
    LET factory_address == user_op.factory
        sender_address == user_op.sender
        paymaster_address == user_op.paymaster
        num_phases == Len(trace.phases)
    IN
    IF TooManyPhases(num_phases)
    THEN [tag |-> "Err", violations |-> <<WrongNumberOfPhases(num_phases)>>]
    ELSE IF ~IsSome(trace.revert_data)
    THEN [tag |-> "Err", violations |-> <<DidNotRevert>>]
    ELSE IF ~IsSome(entity_type_from_simulation_phase(num_phases - 1))
    THEN [tag |-> "Panic"]
    ELSE
    LET revert_data == Unwrap(trace.revert_data)
        last_entity == Unwrap(entity_type_from_simulation_phase(num_phases - 1))
        failed_op == FailedOp_decode_hex(revert_data)
        decoded == ValidationOutput_decode_hex(revert_data)
    IN
    IF IsSome(failed_op)
    THEN LET entity_addr ==
                EntityAddr(last_entity, factory_address, sender_address, paymaster_address)
         IN [tag |-> "Err",
             violations |-> <<UnintendedRevertWithMessage(
                                 last_entity, Unwrap(failed_op).reason, entity_addr)>>]
    ELSE IF ~IsSome(decoded)
    THEN [tag |-> "Err", violations |-> <<UnintendedRevert(last_entity)>>]
    ELSE
    LET entry_point_out == Unwrap(decoded)
        entity_infos == EntityInfos_new(factory_address, sender_address,
                                        paymaster_address, entry_point_out, sim_settings)
        factory == EntityInfos_get(entity_infos, "Factory")
        is_unstaked_wallet_creation == IsSome(factory) /\ ~Unwrap(factory).is_staked
    IN
    IF TooFewPhases(num_phases)
    THEN [tag |-> "Err", violations |-> <<WrongNumberOfPhases(num_phases)>>]
    ELSE [tag |-> "Ok",
          context |-> [block_id |-> block_id,
                       entity_infos |-> entity_infos,
                       tracer_out |-> trace,
                       entry_point_out |-> entry_point_out,
                       is_unstaked_wallet_creation |-> is_unstaked_wallet_creation,
                       entities_needing_stake |-> <<>>,
                       accessed_addresses |-> {}]]

\* ---------------------------------------------------------------- gatherer

\* The (address, slot) pairs of a phase's storage_accesses, in iteration order
\* (the two nested loops of lines 247-250).
RECURSIVE SlotsOf(_, _)
SlotsOf(address, slots) ==
    IF slots = <<>> THEN <<>>
    ELSE <<[address |-> address, slot |-> slots[1]]>> \o SlotsOf(address, Tail(slots))

RECURSIVE StorageSlotsOf(_)
StorageSlotsOf(storage_accesses) ==
    IF storage_accesses = <<>> THEN <<>>
    ELSE SlotsOf(storage_accesses[1].address, storage_accesses[1].slots)
         \o StorageSlotsOf(Tail(storage_accesses))

SeqRange(s) == {s[i] : i \in 1..Len(s)}

\* IndexSet: the distinct elements of s in order of first insertion.
RECURSIVE IndexSetOf(_)
IndexSetOf(s) ==
    IF s = <<>> THEN <<>>
    ELSE LET rest == IndexSetOf(SubSeq(s, 1, Len(s) - 1))
         IN IF s[Len(s)] \in SeqRange(rest) THEN rest ELSE Append(rest, s[Len(s)])

\* The classification of one accessed slot of a phase (lines 251-259).
PhaseRestriction(context, entity_info, storage_slot) ==
    get_storage_restriction(GetStorageRestrictionArgs(
        context.tracer_out.associated_slots_by_address,
        context.is_unstaked_wallet_creation,
        entry_point_address,
        entity_info.address,
        EntityInfos_sender_address(context.entity_infos),
        storage_slot.address,
        storage_slot.slot))

\* Mutant of PhaseNeedsStake: the paymaster context is not looked at.
PhaseNeedsStake_NoContext(context, kind, entity_info, phase) ==
    \E storage_slot \in SeqRange(StorageSlotsOf(phase.storage_accesses)) :
        PhaseRestriction(context, entity_info, storage_slot) = "NeedsStake"

\* needs_stake at the end of the storage loop of a phase (lines 244-268).
PhaseNeedsStake(context, kind, entity_info, phase) ==
    \/ /\ kind = "Paymaster"
       /\ context.entry_point_out.return_info.paymaster_context # <<>>
    \/ \E storage_slot \in SeqRange(StorageSlotsOf(phase.storage_accesses)) :
          PhaseRestriction(context, entity_info, storage_slot) = "NeedsStake"

\* Mutant of PhaseBannedSlots: a vector instead of an IndexSet, so a pair
\* accessed twice is kept twice.
PhaseBannedSlots_All(context, entity_info, phase) ==
    SelectSeq(StorageSlotsOf(phase.storage_accesses),
              LAMBDA storage_slot :
                 PhaseRestriction(context, entity_info, storage_slot) = "Banned")

\* banned_slots_accessed at the end of the storage loop of a phase.
PhaseBannedSlots(context, entity_info, phase) ==
    IndexSetOf(SelectSeq(StorageSlotsOf(phase.storage_accesses),
                         LAMBDA storage_slot :
                            PhaseRestriction(context, entity_info, storage_slot) = "Banned"))

\* Mutant of PhaseAccessedAddresses: the address is inserted in the loop over
\* the slots, so an access that lists no slot adds nothing.
PhaseAccessedAddresses_PerSlot(phase) ==
    {phase.storage_accesses[i].address :
        i \in {j \in 1..Len(phase.storage_accesses) : phase.storage_accesses[j].slots # <<>>}}

\* The addresses a phase adds to accessed_addresses (line 249).
PhaseAccessedAddresses(phase) ==
    {phase.storage_accesses[i].address : i \in 1..Len(phase.storage_accesses)}

\* Whether every combined string of the phase parses (the two ? of lines 231, 239).
PhaseParses(phase) ==
    /\ \A i \in 1..Len(phase.forbidden_opcodes_used) :
          IsSome(parse_combined_tracer_str(phase.forbidden_opcodes_used[i]))
    /\ \A i \in 1..Len(phase.forbidden_precompiles_used) :
          IsSome(parse_combined_tracer_str(phase.forbidden_precompiles_used[i]))

\* The violations one iteration of the phase loop pushes, in push order
\* (lines 226-301), for a phase whose entity is present.
PhaseViolations(context, kind, entity_info, phase) ==
    LET entity == Entity(kind, entity_info.address)
        sender_address == EntityInfos_sender_address(context.entity_infos)
        opcodes ==
            [i \in 1..Len(phase.forbidden_opcodes_used) |->
                LET parsed == Unwrap(parse_combined_tracer_str(phase.forbidden_opcodes_used[i]))
                IN UsedForbiddenOpcode(entity, parsed[1], parsed[2])]
        precompiles ==
            [i \in 1..Len(phase.forbidden_precompiles_used) |->
                LET parsed == Unwrap(parse_combined_tracer_str(phase.forbidden_precompiles_used[i]))
                IN UsedForbiddenPrecompile(entity, parsed[1], parsed[2])]
        needs_stake == PhaseNeedsStake(context, kind, entity_info, phase)
        banned_slots_accessed == PhaseBannedSlots(context, entity_info, phase)
        not_staked ==
            IF needs_stake /\ ~entity_info.is_staked
            THEN <<NotStaked(entity, sim_settings.min_stake_value,
                             sim_settings.min_unstake_delay)>>
            ELSE <<>>
        invalid_storage ==
            [i \in 1..Len(banned_slots_accessed) |->
                InvalidStorageAccess(entity, banned_slots_accessed[i])]
        non_sender_called_with_value ==
            \E i \in 1..Len(phase.addresses_calling_with_value) :
                phase.addresses_calling_with_value[i] # sender_address
        call_had_value ==
            IF non_sender_called_with_value \/ phase.called_non_entry_point_with_value
            THEN <<CallHadValue(entity)>> ELSE <<>>
        called_banned ==
            IF phase.called_banned_entry_point_method
            THEN <<CalledBannedEntryPointMethod(entity)>> ELSE <<>>
        out_of_gas == IF phase.ran_out_of_gas THEN <<OutOfGas(entity)>> ELSE <<>>
        undeployed ==
            [i \in 1..Len(phase.undeployed_contract_accesses) |->
                AccessedUndeployedContract(entity, phase.undeployed_contract_accesses[i])]
    IN opcodes \o precompiles \o not_staked \o invalid_storage \o call_had_value
       \o called_banned \o out_of_gas \o undeployed

\* The phase loop (lines 221-302) from phase index + 1 on, continuing from acc =
\* [ok, violations, entities_needing_stake, accessed_addresses].
RECURSIVE GatherPhases(_, _, _)
GatherPhases(context, index, acc) ==
    IF ~acc.ok \/ index >= Len(context.tracer_out.phases) \/ index >= 3 THEN acc
    ELSE
    LET phase == context.tracer_out.phases[index + 1]
        kind == Unwrap(entity_type_from_simulation_phase(index))
        info == EntityInfos_get(context.entity_infos, kind)
    IN
    IF ~IsSome(info) THEN GatherPhases(context, index + 1, acc)
    ELSE IF ~PhaseParses(phase) THEN [acc EXCEPT !.ok = FALSE]
    ELSE
    LET entity_info == Unwrap(info)
        needs_stake == PhaseNeedsStake(context, kind, entity_info, phase)
    IN GatherPhases(context, index + 1,
          [ok |-> TRUE,
           violations |-> acc.violations \o PhaseViolations(context, kind, entity_info, phase),
           entities_needing_stake |->
               IF needs_stake THEN Append(acc.entities_needing_stake, kind)
               ELSE acc.entities_needing_stake,
           accessed_addresses |->
               acc.accessed_addresses \cup PhaseAccessedAddresses(phase)])

\* Mutant of AggregatorViolations: the negation of is_staked is lost.
AggregatorViolations_Staked(context) ==
    LET aggregator_info == context.entry_point_out.aggregator_info
    IN IF IsSome(aggregator_info) /\ is_staked(Unwrap(aggregator_info).stake_info, sim_settings)
       THEN <<NotStaked(Entity("Aggregator", Unwrap(aggregator_info).address),
                        sim_settings.min_stake_value, sim_settings.min_unstake_delay)>>
       ELSE <<>>

\* The violations pushed for the aggregator (lines 304-313).
AggregatorViolations(context) ==
    LET aggregator_info == context.entry_point_out.aggregator_info
    IN IF IsSome(aggregator_info) /\ ~is_staked(Unwrap(aggregator_info).stake_info, sim_settings)
       THEN <<NotStaked(Entity("Aggregator", Unwrap(aggregator_info).address),
                        sim_settings.min_stake_value, sim_settings.min_unstake_delay)>>
       ELSE <<>>

\* Mutant of Create2Violations: the entry point is blamed even when the op
\* has a factory.
Create2Violations_EntryPoint(context) ==
    IF ~context.tracer_out.factory_called_create2_twice THEN <<>>
    ELSE <<FactoryCalledCreate2Twice(entry_point_address)>>

\* The violation pushed for a second CREATE2 (lines 314-330).
Create2Violations(context) ==
    LET factory == EntityInfos_get(context.entity_infos, "Factory")
    IN IF ~context.tracer_out.factory_called_create2_twice THEN <<>>
       ELSE IF IsSome(factory) THEN <<FactoryCalledCreate2Twice(Unwrap(factory).address)>>
       ELSE <<FactoryCalledCreate2Twice(entry_point_address)>>

\* fn gather_context_violations(&self, context: &mut ValidationContext):
\* [ok, violations, entities_needing_stake, accessed_addresses]; ok is FALSE
\* when a combined tracer string does not parse (anyhow error).
gather_context_violations(context) ==
    LET start == [ok |-> TRUE,
                  violations |->
                      IF context.entry_point_out.return_info.sig_failed
                      THEN <<InvalidSignature>> ELSE <<>>,
                  entities_needing_stake |-> context.entities_needing_stake,
                  accessed_addresses |-> context.accessed_addresses]
        phases == GatherPhases(context, 0, start)
    IN IF ~phases.ok THEN phases
       ELSE [phases EXCEPT
               !.violations = @ \o AggregatorViolations(context) \o Create2Violations(context),
               !.entities_needing_stake =
                   IF IsSome(context.entry_point_out.aggregator_info)
                   THEN Append(@, "Aggregator") ELSE @]

\* ---------------------------------------------------------------- mempools

\* Whether the mempool's allowlist covers the violation.
Allowlisted(config, violation) == violation.kind \in config.allowlist

\* match_mempools(&self.mempool_configs, &violations): NoMatch(i), i the
\* (0-based) index of the first violation that no mempool allowlists, else
\* Matches(pools), the ids of the mempools whose allowlist covers every
\* violation, in ascending order.
match_mempools(configs, violations) ==
    LET unmatched == {i \in 1..Len(violations) :
                        \A id \in DOMAIN configs : ~Allowlisted(configs[id], violations[i])}
        matching == {id \in DOMAIN configs :
                        \A i \in 1..Len(violations) : Allowlisted(configs[id], violations[i])}
        RECURSIVE Ascending(_)
        Ascending(ids) ==
            IF ids = {} THEN <<>>
            ELSE LET least == CHOOSE id \in ids : \A other \in ids : id <= other
                 IN <<least>> \o Ascending(ids \ {least})
    IN IF unmatched # {}
       THEN [tag |-> "NoMatch",
             index |-> (CHOOSE i \in unmatched : \A j \in unmatched : i <= j) - 1]
       ELSE [tag |-> "Matches", pools |-> Ascending(matching)]

\* ---------------------------------------------------------------- check_contracts

\* Mutant of ContractViolations: the code hash is compared the wrong way round.
ContractViolations_Equal(expected, code_hash, aggregator_out) ==
    (IF IsSome(expected) /\ Unwrap(expected) = code_hash THEN <<CodeHashChanged>> ELSE <<>>)
    \o (IF aggregator_out.tag = "ValidationReverted"
        THEN <<AggregatorValidationFailed>> ELSE <<>>)

\* Mutant of ContractViolations: the aggregator result is examined first.
ContractViolations_Reversed(expected, code_hash, aggregator_out) ==
    (IF aggregator_out.tag = "ValidationReverted"
     THEN <<AggregatorValidationFailed>> ELSE <<>>)
    \o (IF IsSome(expected) /\ Unwrap(expected) # code_hash THEN <<CodeHashChanged>> ELSE <<>>)

\* The violations check_contracts collects after the join, in push order
\* (lines 369-381).
ContractViolations(expected, code_hash, aggregator_out) ==
    (IF IsSome(expected) /\ Unwrap(expected) # code_hash THEN <<CodeHashChanged>> ELSE <<>>)
    \o (IF aggregator_out.tag = "ValidationReverted"
        THEN <<AggregatorValidationFailed>> ELSE <<>>)

\* check_contracts from the join on (lines 366-387), both futures having
\* answered Ok: Err(violations) or Ok((code_hash, aggregator)).
check_contracts(expected, code_hash, aggregator_out) ==
    LET found == ContractViolations(expected, code_hash, aggregator_out)
        aggregator ==
            IF aggregator_out.tag = "SuccessWithInfo" THEN Some(aggregator_out.info) ELSE None
    IN IF found # <<>>
       THEN [tag |-> "Err", violations |-> found]
       ELSE [tag |-> "Ok", code_hash |-> code_hash, aggregator |-> aggregator]

\* ---------------------------------------------------------------- state

VARIABLES
    pc,                           \* where the call of simulate_validation stands
    op,                           \* argument op (sender, factory(), paymaster())
    block_hash,                   \* argument block_hash, then the resolved hash
    expected_code_hash,           \* argument expected_code_hash
    mempool_configs,              \* self.mempool_configs
    tracer_out,                   \* the tracer's answer (line 121)
    context,                      \* the ValidationContext
    violations,                   \* the gathered violations, sorted (line 416)
    mempools,                     \* the matching mempools (line 418)
    code_hash_future,             \* the outcome of code_hash_future, once ready
    aggregator_signature_future,  \* the outcome of aggregator_signature_future
    result,                       \* what simulate_validation returned
    provider_calls,               \* the provider's methods the call has called
    restriction_args,             \* the arguments of a get_storage_restriction call
    restriction,                  \* its result
    restriction_before,           \* the result before is_unstaked_wallet_creation was set
    previous                      \* the call that returned last: its arguments, the
                                  \* collaborators' answers and its result

vars ==
    << pc, op, block_hash, expected_code_hash, mempool_configs, tracer_out, context,
       violations, mempools, code_hash_future, aggregator_signature_future, result,
       provider_calls, restriction_args, restriction, restriction_before, previous >>

callVars ==
    << pc, op, block_hash, expected_code_hash, tracer_out, context, violations,
       mempools, code_hash_future, aggregator_signature_future, result,
       provider_calls >>

classifierVars == << restriction_args, restriction, restriction_before >>

\* Result<SimulationSuccess, SimulationError>, or the task panicking.
OkResult(success) == [tag |-> "Ok", success |-> success]

ViolationsResult(list) == [tag |-> "Violations", violations |-> list]

OtherResult == [tag |-> "Other"]

PanicResult == [tag |-> "Panic"]

\* SimulatorImpl::new: the simulator with its mempool configuration; no call
\* is running.
InitWith(configs) ==
    /\ pc = "idle"
    /\ op = None
    /\ block_hash = None
    /\ expected_code_hash = None
    /\ mempool_configs \in configs
    /\ tracer_out = None
    /\ context = None
    /\ violations = None
    /\ mempools = None
    /\ code_hash_future = None
    /\ aggregator_signature_future = None
    /\ result = None
    /\ provider_calls = {}
    /\ restriction_args = None
    /\ restriction = None
    /\ restriction_before = None
    /\ previous = None

\* ---------------------------------------------------------------- simulate_validation

\* simulate_validation is called (lines 397-406): with a block hash it goes on
\* to the tracer call, without one it first asks the provider for the latest.
SimulateValidation(ops, hashes, expected) ==
    /\ pc = "idle"
    /\ \E o \in ops, h \in hashes, e \in expected :
          /\ op' = Some(o)
          /\ block_hash' = h
          /\ expected_code_hash' = e
          /\ pc' = IF IsSome(h) THEN "tracer" ELSE "block_hash"
          /\ provider_calls' = IF IsSome(h) THEN {} ELSE {"get_latest_block_hash"}
    /\ UNCHANGED << mempool_configs, tracer_out, context, violations, mempools,
                    code_hash_future, aggregator_signature_future, result >>
    /\ UNCHANGED classifierVars
    /\ UNCHANGED previous

\* provider.get_latest_block_hash() answers (line 405): Ok(hash) or an error,
\* which ? returns as ViolationError::Other.
GetLatestBlockHashReturns(hashes) ==
    /\ pc = "block_hash"
    /\ \/ \E h \in hashes : block_hash' = Some(h) /\ pc' = "tracer" /\ result' = result
       \/ block_hash' = block_hash /\ pc' = "done" /\ result' = Some(OtherResult)
    /\ UNCHANGED << op, expected_code_hash, mempool_configs, tracer_out, context,
                    violations, mempools, code_hash_future, aggregator_signature_future,
                    provider_calls >>
    /\ UNCHANGED classifierVars
    /\ UNCHANGED previous

\* The tracer call fails (line 124): ViolationError::Other.
TracerFails ==
    /\ pc = "tracer"
    /\ pc' = "done"
    /\ result' = Some(OtherResult)
    /\ UNCHANGED << op, block_hash, expected_code_hash, mempool_configs, tracer_out,
                    context, violations, mempools, code_hash_future,
                    aggregator_signature_future, provider_calls >>
    /\ UNCHANGED classifierVars
    /\ UNCHANGED previous

\* Mutant of validate_aggregator_signature: the provider is asked whether or
\* not the entry point named an aggregator.
validate_aggregator_signature_Always(aggregator_address) == None

\* The state of aggregator_signature_future when check_contracts starts it
\* (validate_aggregator_signature, lines 180-194): ready with NotNeeded when
\* there is no aggregator, else waiting for the provider.
validate_aggregator_signature(aggregator_address) ==
    IF ~IsSome(aggregator_address)
    THEN Some([ok |-> TRUE, out |-> [tag |-> "NotNeeded"]])
    ELSE None

\* The first poll of try_join! (lines 366-367), which polls code_hash_future
\* and then aggregator_signature_future: eth::get_code_hash is called and is
\* either pending or, with poll = "Error", ready with an error at once, which
\* ends the join before aggregator_signature_future is polled.  The provider's
\* validate_user_op_signature is called when that future is polled and is not
\* ready with NotNeeded.
FirstPollCalls(poll, started) ==
    {"get_code_hash"}
    \cup (IF poll = "Pending" /\ ~IsSome(started) THEN {"validate_user_op_signature"} ELSE {})

\* The tracer answers with out (lines 121-124); the call runs on to its next
\* suspension point: the rest of create_context, gather_context_violations,
\* the sort, match_mempools, the start of check_contracts' two futures and
\* the first poll of their join (lines 125-178, 408-426, 344-367).
TracerReturns(outs, polls) ==
    /\ pc = "tracer"
    /\ \E out \in outs, poll \in polls :
       \E created \in {create_context(Unwrap(op), Unwrap(block_hash), out)} :
        /\ tracer_out' = Some(out)
        /\ CASE created.tag = "Panic" ->
                  /\ pc' = "done"
                  /\ result' = Some(PanicResult)
                  /\ UNCHANGED << context, violations, mempools, code_hash_future,
                                  aggregator_signature_future, provider_calls >>
             [] created.tag = "Err" ->
                  /\ pc' = "done"
                  /\ result' = Some(ViolationsResult(created.violations))
                  /\ UNCHANGED << context, violations, mempools, code_hash_future,
                                  aggregator_signature_future, provider_calls >>
             [] created.tag = "Ok" ->
                  \E gathered \in {gather_context_violations(created.context)} :
                  IF ~gathered.ok
                  THEN /\ pc' = "done"
                       /\ result' = Some(OtherResult)
                       /\ context' = Some(created.context)
                       /\ UNCHANGED << violations, mempools, code_hash_future,
                                       aggregator_signature_future, provider_calls >>
                  ELSE
                  \E sorted \in {SortViolations(gathered.violations)} :
                  \E matched \in {match_mempools(mempool_configs, sorted)} :
                  LET gathered_context ==
                          [created.context EXCEPT
                              !.entities_needing_stake = gathered.entities_needing_stake,
                              !.accessed_addresses = gathered.accessed_addresses]
                      aggregator_info == created.context.entry_point_out.aggregator_info
                      aggregator_address ==
                          IF IsSome(aggregator_info)
                          THEN Some(Unwrap(aggregator_info).address) ELSE None
                  IN
                  /\ violations' = Some(sorted)
                  /\ IF matched.tag = "NoMatch"
                     THEN /\ pc' = "done"
                          /\ result' = Some(ViolationsResult(<<sorted[matched.index + 1]>>))
                          /\ context' = Some(gathered_context)
                          /\ UNCHANGED << mempools, code_hash_future,
                                          aggregator_signature_future, provider_calls >>
                     ELSE \E started \in {validate_aggregator_signature(aggregator_address)} :
                          /\ context' = Some([gathered_context EXCEPT
                                          !.tracer_out.accessed_contract_addresses = <<>>])
                          /\ mempools' = Some(matched.pools)
                          /\ aggregator_signature_future' = started
                          /\ provider_calls' = provider_calls \cup FirstPollCalls(poll, started)
                          /\ IF poll = "Error"
                             THEN /\ code_hash_future' = Some([ok |-> FALSE])
                                  /\ pc' = "done"
                                  /\ result' = Some(OtherResult)
                             ELSE /\ code_hash_future' = None
                                  /\ pc' = "contracts"
                                  /\ result' = result
    /\ UNCHANGED << op, block_hash, expected_code_hash, mempool_configs >>
    /\ UNCHANGED classifierVars
    /\ UNCHANGED previous

\* Mutant of SimulationSuccess: entities_needing_stake is a vector the
\* simulator keeps and never clears, so it still holds what an earlier call
\* pushed.
SimulationSuccess_Kept(ctx, pools, hash, checked) ==
    [mempools |-> pools,
     block_hash |-> hash,
     pre_op_gas |-> ctx.entry_point_out.return_info.pre_op_gas,
     valid_time_range |-> <<ctx.entry_point_out.return_info.valid_after,
                            ctx.entry_point_out.return_info.valid_until>>,
     aggregator |-> checked.aggregator,
     code_hash |-> checked.code_hash,
     entities_needing_stake |->
        (IF /\ IsSome(previous)
            /\ IsSome(Unwrap(previous).result)
            /\ Unwrap(Unwrap(previous).result).tag = "Ok"
         THEN Unwrap(Unwrap(previous).result).success.entities_needing_stake
         ELSE <<>>) \o ctx.entities_needing_stake,
     account_is_staked |-> is_staked(ctx.entry_point_out.sender_info, sim_settings),
     accessed_addresses |-> ctx.accessed_addresses,
     expected_storage |-> ctx.tracer_out.expected_storage]

\* The success record (lines 429-460).
SimulationSuccess(ctx, pools, hash, checked) ==
    [mempools |-> pools,
     block_hash |-> hash,
     pre_op_gas |-> ctx.entry_point_out.return_info.pre_op_gas,
     valid_time_range |-> <<ctx.entry_point_out.return_info.valid_after,
                            ctx.entry_point_out.return_info.valid_until>>,
     aggregator |-> checked.aggregator,
     code_hash |-> checked.code_hash,
     entities_needing_stake |-> ctx.entities_needing_stake,
     account_is_staked |-> is_staked(ctx.entry_point_out.sender_info, sim_settings),
     accessed_addresses |-> ctx.accessed_addresses,
     expected_storage |-> ctx.tracer_out.expected_storage]

\* Mutant of Joined: the violations of the contract-check stage are matched
\* against the mempools' allowlists, as the gathered ones are.
Joined_Allowlisted(code_hash_answer, aggregator_answer) ==
    IF ~code_hash_answer.ok \/ ~aggregator_answer.ok THEN OtherResult
    ELSE LET found == ContractViolations(expected_code_hash, code_hash_answer.hash,
                                         aggregator_answer.out)
         IN IF found # <<>> /\ match_mempools(mempool_configs, found).tag = "NoMatch"
            THEN ViolationsResult(found)
            ELSE OkResult(SimulationSuccess(
                    Unwrap(context), Unwrap(mempools), Unwrap(block_hash),
                    [code_hash |-> code_hash_answer.hash, aggregator |-> None]))

\* What simulate_validation returns once try_join! has both answers
\* (lines 366-388, 424-461): Other if either is an error, else the outcome of
\* check_contracts.
Joined(code_hash_answer, aggregator_answer) ==
    IF ~code_hash_answer.ok \/ ~aggregator_answer.ok THEN OtherResult
    ELSE LET checked == check_contracts(expected_code_hash, code_hash_answer.hash,
                                        aggregator_answer.out)
         IN IF checked.tag = "Err" THEN ViolationsResult(checked.violations)
            ELSE OkResult(SimulationSuccess(Unwrap(context), Unwrap(mempools),
                                            Unwrap(block_hash), checked))

\* eth::get_code_hash answers (code_hash_future becomes ready).  An error ends
\* the join at once; an Ok ends it when the other future is ready.
CodeHashReturns(answers) ==
    /\ pc = "contracts"
    /\ ~IsSome(code_hash_future)
    /\ \E answer \in answers :
        /\ code_hash_future' = Some(answer)
        /\ IF ~answer.ok
           THEN pc' = "done" /\ result' = Some(OtherResult)
           ELSE IF IsSome(aggregator_signature_future)
           THEN /\ pc' = "done"
                /\ result' = Some(Joined(answer, Unwrap(aggregator_signature_future)))
           ELSE pc' = pc /\ result' = result
    /\ UNCHANGED << op, block_hash, expected_code_hash, mempool_configs, tracer_out,
                    context, violations, mempools, aggregator_signature_future,
                    provider_calls >>
    /\ UNCHANGED classifierVars
    /\ UNCHANGED previous

\* Mutant of AggregatorSignatureReturns: the aggregator's answer is consumed
\* as soon as it arrives, so a ValidationReverted that arrives before the code
\* hash fails the call at once with AggregatorValidationFailed.
AggregatorSignatureReturns_Eager(answers) ==
    /\ pc = "contracts"
    /\ ~IsSome(aggregator_signature_future)
    /\ \E answer \in answers :
        /\ aggregator_signature_future' = Some(answer)
        /\ IF ~answer.ok
           THEN pc' = "done" /\ result' = Some(OtherResult)
           ELSE IF answer.out.tag = "ValidationReverted" /\ ~IsSome(code_hash_future)
           THEN pc' = "done" /\ result' = Some(ViolationsResult(<<AggregatorValidationFailed>>))
           ELSE IF IsSome(code_hash_future)
           THEN /\ pc' = "done"
                /\ result' = Some(Joined(Unwrap(code_hash_future), answer))
           ELSE pc' = pc /\ result' = result
    /\ UNCHANGED << op, block_hash, expected_code_hash, mempool_configs, tracer_out,
                    context, violations, mempools, code_hash_future, provider_calls >>
    /\ UNCHANGED classifierVars
    /\ UNCHANGED previous

\* provider.validate_user_op_signature answers (aggregator_signature_future
\* becomes ready).
AggregatorSignatureReturns(answers) ==
    /\ pc = "contracts"
    /\ ~IsSome(aggregator_signature_future)
    /\ \E answer \in answers :
        /\ aggregator_signature_future' = Some(answer)
        /\ IF ~answer.ok
           THEN pc' = "done" /\ result' = Some(OtherResult)
           ELSE IF IsSome(code_hash_future)
           THEN /\ pc' = "done"
                /\ result' = Some(Joined(Unwrap(code_hash_future), answer))
           ELSE pc' = pc /\ result' = result
    /\ UNCHANGED << op, block_hash, expected_code_hash, mempool_configs, tracer_out,
                    context, violations, mempools, code_hash_future, provider_calls >>
    /\ UNCHANGED classifierVars
    /\ UNCHANGED previous

\* The arguments and locals of the call, as its future holds them.
CallState ==
    [pc |-> pc,
     op |-> op,
     block_hash |-> block_hash,
     expected_code_hash |-> expected_code_hash,
     tracer_out |-> tracer_out,
     context |-> context,
     violations |-> violations,
     mempools |-> mempools,
     code_hash_future |-> code_hash_future,
     aggregator_signature_future |-> aggregator_signature_future,
     result |-> result,
     provider_calls |-> provider_calls]

\* No call: what the caller holds before it calls simulate_validation.
NoCall ==
    [pc |-> "idle",
     op |-> None,
     block_hash |-> None,
     expected_code_hash |-> None,
     tracer_out |-> None,
     context |-> None,
     violations |-> None,
     mempools |-> None,
     code_hash_future |-> None,
     aggregator_signature_future |-> None,
     result |-> None,
     provider_calls |-> {}]

\* The call's arguments and locals become those of call.
Resume(call) ==
    /\ pc' = call.pc
    /\ op' = call.op
    /\ block_hash' = call.block_hash
    /\ expected_code_hash' = call.expected_code_hash
    /\ tracer_out' = call.tracer_out
    /\ context' = call.context
    /\ violations' = call.violations
    /\ mempools' = call.mempools
    /\ code_hash_future' = call.code_hash_future
    /\ aggregator_signature_future' = call.aggregator_signature_future
    /\ result' = call.result
    /\ provider_calls' = call.provider_calls

\* The call has returned (line 461, or an earlier return): its arguments and
\* locals are dropped and the simulator, which is only ever borrowed as &self,
\* can be called again.  previous remembers this call, or keeps the call it
\* holds, for comparison with a later one.
Returned ==
    /\ pc = "done"
    /\ \/ previous' = Some(CallState)
       \/ IsSome(previous) /\ previous' = previous
    /\ Resume(NoCall)
    /\ UNCHANGED mempool_configs
    /\ UNCHANGED classifierVars

\* Two calls run concurrently on the simulator (simulate_validation takes
\* &self): at a suspension point the executor leaves the running call for the
\* other one, which previous holds, or for a new one.
Switch ==
    /\ pc \notin {"idle", "done"}
    /\ previous' = Some(CallState)
    /\ Resume(IF IsSome(previous) THEN Unwrap(previous) ELSE NoCall)
    /\ UNCHANGED mempool_configs
    /\ UNCHANGED classifierVars

\* ---------------------------------------------------------------- classifier calls

\* A call of get_storage_restriction on restriction_args.
GetStorageRestriction ==
    /\ IsSome(restriction_args)
    /\ ~IsSome(restriction)
    /\ restriction' = Some(get_storage_restriction(Unwrap(restriction_args)))
    /\ UNCHANGED << restriction_args, restriction_before, mempool_configs >>
    /\ UNCHANGED callVars
    /\ UNCHANGED previous

\* The same call again, with is_unstaked_wallet_creation changed from false to
\* true and every other argument kept.
SetUnstakedWalletCreation ==
    /\ IsSome(restriction)
    /\ ~IsSome(restriction_before)
    /\ ~Unwrap(restriction_args).is_unstaked_wallet_creation
    /\ LET flipped == [Unwrap(restriction_args) EXCEPT !.is_unstaked_wallet_creation = TRUE]
       IN /\ restriction_args' = Some(flipped)
          /\ restriction_before' = restriction
          /\ restriction' = Some(get_storage_restriction(flipped))
    /\ UNCHANGED mempool_configs
    /\ UNCHANGED callVars
    /\ UNCHANGED previous

\* ---------------------------------------------------------------- inputs

\* Largest number of phases a tracer output carries.
MaxPhases == 4

\* Addresses and slots the classifier is called with.
MaxAddress == 3

MaxSlot == 2

\* Addresses of the calls: 1 is the entry point, 2 the sender, 3 the factory,
\* 4 the paymaster, 5 the aggregator, 6 belongs to nobody.  Slot 10 is
\* associated with the sender, 11 with the factory, 12 with the paymaster, 13
\* with nobody.
AssociatedSlots == (2 :> {10}) @@ (3 :> {11}) @@ (4 :> {12})

Ops == {[sender |-> 2, factory |-> f, paymaster |-> p] :
            f \in {None, Some(3)}, p \in {None, Some(4)}}

BlockHashes == {7}

CodeHashes == {8, 9}

StakedInfo == StakeInfo(sim_settings.min_stake_value, sim_settings.min_unstake_delay)

UnstakedInfos ==
    {StakeInfo(sim_settings.min_stake_value - 1, sim_settings.min_unstake_delay),
     StakeInfo(sim_settings.min_stake_value, sim_settings.min_unstake_delay - 1)}

ValidationOutput(sig_failed, paymaster_context, sender, factory, paymaster, aggregator) ==
    [return_info |-> [pre_op_gas |-> 1, valid_after |-> 0, valid_until |-> 9,
                      sig_failed |-> sig_failed,
                      paymaster_context |-> paymaster_context],
     sender_info |-> sender,
     factory_info |-> factory,
     paymaster_info |-> paymaster,
     aggregator_info |-> aggregator]

AggregatorInfo(stake_info) == [address |-> 5, stake_info |-> stake_info]

CleanPhase ==
    [forbidden_opcodes_used |-> <<>>,
     forbidden_precompiles_used |-> <<>>,
     storage_accesses |-> <<>>,
     addresses_calling_with_value |-> <<>>,
     called_non_entry_point_with_value |-> FALSE,
     called_banned_entry_point_method |-> FALSE,
     ran_out_of_gas |-> FALSE,
     undeployed_contract_accesses |-> <<>>]

StorageAccess(address, slots) == [address |-> address, slots |-> slots]

\* A phase with a finding of every kind.
BusyPhase ==
    [forbidden_opcodes_used |-> << <<6, 58>> >>,
     forbidden_precompiles_used |-> << <<6, 9>> >>,
     storage_accesses |-> << StorageAccess(6, <<13, 13>>), StorageAccess(3, <<11>>) >>,
     addresses_calling_with_value |-> <<2, 6>>,
     called_non_entry_point_with_value |-> TRUE,
     called_banned_entry_point_method |-> TRUE,
     ran_out_of_gas |-> TRUE,
     undeployed_contract_accesses |-> <<6>>]

\* A phase whose forbidden-opcode string has no ':'.
MalformedPhase == [CleanPhase EXCEPT !.forbidden_opcodes_used = << <<6>> >>]

TracerOutput(phases, revert_data, create2_twice) ==
    [phases |-> phases,
     revert_data |-> revert_data,
     accessed_contract_addresses |-> <<1, 2>>,
     associated_slots_by_address |-> AssociatedSlots,
     factory_called_create2_twice |-> create2_twice,
     expected_storage |-> (1 :> (10 :> 0))]

FailedOpPayload(reason) == [selector |-> "FailedOp", data |-> Some([reason |-> reason])]

ValidationResultPayload(output) == [selector |-> "ValidationResult", data |-> Some(output)]

\* Payloads that decode as neither: an unknown selector, a truncated body.
UndecodablePayloads ==
    {[selector |-> "Error", data |-> None], [selector |-> "ValidationResult", data |-> None]}

CodeHashAnswers == {[ok |-> TRUE, hash |-> h] : h \in {8}} \cup {[ok |-> FALSE]}

AggregatorAnswers ==
    {[ok |-> TRUE, out |-> [tag |-> "NotNeeded"]],
     [ok |-> TRUE, out |-> [tag |-> "SuccessWithInfo", info |-> [address |-> 5, signature |-> 1]]],
     [ok |-> TRUE, out |-> [tag |-> "ValidationReverted"]],
     [ok |-> FALSE]}

AllKinds == {ViolationKinds[i] : i \in 1..Len(ViolationKinds)}

MempoolConfig(allowlist) == [allowlist |-> allowlist]

\* The default configuration (one mempool, nothing allowlisted), one mempool
\* allowlisting everything, two mempools with different allowlists, and one
\* mempool allowlisting the two kinds that sort first among the gathered ones.
MempoolConfigs ==
    {(0 :> MempoolConfig({})),
     (0 :> MempoolConfig(AllKinds)),
     (0 :> MempoolConfig(AllKinds \ {"NotStaked"})) @@ (1 :> MempoolConfig({"NotStaked"})),
     (0 :> MempoolConfig({"InvalidSignature", "UsedForbiddenOpcode"}))}

\* ---------------------------------------------------------------- Spec

\* Every number of phases from 0 to MaxPhases, every shape of revert_data.
PhaseLists ==
    UNION {[1..n -> {CleanPhase, BusyPhase}] : n \in 0..MaxPhases} \cup {<<CleanPhase, MalformedPhase, CleanPhase>>}

Outputs ==
    {ValidationOutput(FALSE, <<>>, StakedInfo, StakedInfo, StakedInfo, None),
     ValidationOutput(TRUE, <<>>, StakedInfo, StakedInfo, StakedInfo, None),
     ValidationOutput(FALSE, <<>>, StakedInfo, StakedInfo, StakedInfo, Some(AggregatorInfo(StakedInfo)))}

RevertData ==
    {None, Some(FailedOpPayload(1))}
    \cup {Some(payload) : payload \in UndecodablePayloads}
    \cup {Some(ValidationResultPayload(output)) : output \in Outputs}

TracerOutputs ==
    {TracerOutput(phases, revert_data, FALSE) : phases \in PhaseLists, revert_data \in RevertData}

Init == InitWith(MempoolConfigs)

Next ==
    \/ SimulateValidation(Ops, {None} \cup {Some(h) : h \in BlockHashes},
                          {None} \cup {Some(h) : h \in CodeHashes})
    \/ GetLatestBlockHashReturns(BlockHashes)
    \/ TracerFails
    \/ TracerReturns(TracerOutputs, {"Pending", "Error"})
    \/ CodeHashReturns(CodeHashAnswers)
    \/ AggregatorSignatureReturns(AggregatorAnswers)

Spec == Init /\ [][Next]_vars

\* ---------------------------------------------------------------- SpecGather

\* Calls that reach the gatherer: three phases, a revert that decodes as a
\* ValidationOutput, and every combination of storage accesses, stakes,
\* paymaster context and aggregator; a phase may carry a combined string
\* that does not parse.
GatherPhaseChoices ==
    {CleanPhase,
     \* the sender's own storage and a sender-associated slot of the entry point
     [CleanPhase EXCEPT !.storage_accesses =
        << StorageAccess(2, <<13>>), StorageAccess(1, <<10>>) >>],
     \* a sender-associated slot somewhere else
     [CleanPhase EXCEPT !.storage_accesses = << StorageAccess(6, <<10>>) >>],
     \* the factory's own storage
     [CleanPhase EXCEPT !.storage_accesses = << StorageAccess(3, <<13>>) >>],
     \* a paymaster-associated slot somewhere else
     [CleanPhase EXCEPT !.storage_accesses = << StorageAccess(6, <<12>>) >>],
     \* nobody's slot, three times, and an access that lists no slot
     [CleanPhase EXCEPT !.storage_accesses =
        << StorageAccess(6, <<13, 13>>), StorageAccess(5, <<>>), StorageAccess(6, <<13>>) >>],
     BusyPhase,
     MalformedPhase}

GatherOutputs ==
    {ValidationOutput(FALSE, paymaster_context, StakeInfo(0, 0), factory, paymaster, aggregator) :
        paymaster_context \in {<<>>, <<1>>},
        factory \in {StakedInfo, StakeInfo(sim_settings.min_stake_value - 1,
                                           sim_settings.min_unstake_delay)},
        paymaster \in {StakedInfo, StakeInfo(sim_settings.min_stake_value,
                                             sim_settings.min_unstake_delay - 1)},
        aggregator \in {None, Some(AggregatorInfo(StakedInfo)),
                        Some(AggregatorInfo(StakeInfo(sim_settings.min_stake_value,
                                                      sim_settings.min_unstake_delay - 1)))}}

GatherTracerOutputs ==
    {TracerOutput(phases, Some(ValidationResultPayload(output)), FALSE) :
        phases \in [1..3 -> GatherPhaseChoices], output \in GatherOutputs}

InitGather == InitWith({(0 :> MempoolConfig({})), (0 :> MempoolConfig(AllKinds))})

NextGather ==
    \/ SimulateValidation(Ops, {Some(h) : h \in BlockHashes}, {None})
    \/ TracerReturns(GatherTracerOutputs, {"Pending"})
    \/ CodeHashReturns({[ok |-> TRUE, hash |-> 8]})
    \/ AggregatorSignatureReturns(
          {[ok |-> TRUE,
            out |-> [tag |-> "SuccessWithInfo", info |-> [address |-> 5, signature |-> 1]]]})

SpecGather == InitGather /\ [][NextGather]_vars

\* ---------------------------------------------------------------- SpecClassifier

\* Every call of get_storage_restriction over MaxAddress addresses and
\* MaxSlot slots; slot 1 is associated with the addresses in owners and with
\* no other, the other slots with nobody.
ClassifierArgs ==
    {GetStorageRestrictionArgs([a \in owners |-> {1}], unstaked_creation, entry_point,
                               entity, sender, accessed, slot) :
        owners \in SUBSET (1..MaxAddress), unstaked_creation \in BOOLEAN,
        entry_point \in 1..MaxAddress, entity \in 1..MaxAddress,
        sender \in 1..MaxAddress, accessed \in 1..MaxAddress, slot \in 1..MaxSlot}

InitClassifier ==
    /\ pc = "idle"
    /\ op = None
    /\ block_hash = None
    /\ expected_code_hash = None
    /\ mempool_configs = (0 :> MempoolConfig({}))
    /\ tracer_out = None
    /\ context = None
    /\ violations = None
    /\ mempools = None
    /\ code_hash_future = None
    /\ aggregator_signature_future = None
    /\ result = None
    /\ provider_calls = {}
    /\ restriction_args \in {Some(args) : args \in ClassifierArgs}
    /\ restriction = None
    /\ restriction_before = None
    /\ previous = None

NextClassifier ==
    \/ GetStorageRestriction
    \/ SetUnstakedWalletCreation

SpecClassifier == InitClassifier /\ [][NextClassifier]_vars

\* ---------------------------------------------------------------- SpecAccount

\* The account phase of tests::test_simulate_validation: the sender calls with
\* value, and accesses two slots of its own storage and a slot associated with
\* it in the entry point.
TestAccountPhase ==
    [CleanPhase EXCEPT
        !.addresses_calling_with_value = <<2>>,
        !.storage_accesses = << StorageAccess(2, <<13, 14>>), StorageAccess(1, <<10>>) >>]

\* An account phase that accesses a sender-associated slot held somewhere else.
AssociatedElsewherePhase ==
    [CleanPhase EXCEPT !.storage_accesses = << StorageAccess(6, <<10>>) >>]

\* A factory or paymaster phase that accesses the factory's own storage.
FactoryStoragePhase ==
    [CleanPhase EXCEPT !.storage_accesses = << StorageAccess(3, <<13>>) >>]

AccountPhaseLists ==
    {<<first, second, third>> :
        first \in {CleanPhase, FactoryStoragePhase},
        second \in {CleanPhase, TestAccountPhase, AssociatedElsewherePhase},
        third \in {CleanPhase, FactoryStoragePhase}}

\* Every sender stake around the two thresholds, with a staked or unstaked
\* factory and paymaster; no signature failure and no aggregator.
AccountOutputs ==
    {ValidationOutput(FALSE, <<>>, sender, factory, paymaster, None) :
        sender \in {StakedInfo,
                    StakeInfo(sim_settings.min_stake_value + 1,
                              sim_settings.min_unstake_delay + 1)} \cup UnstakedInfos,
        factory \in {StakedInfo, StakeInfo(0, 0)},
        paymaster \in {StakedInfo, StakeInfo(0, 0)}}

AccountTracerOutputs ==
    {TracerOutput(phases, Some(ValidationResultPayload(output)), create2_twice) :
        phases \in AccountPhaseLists, output \in AccountOutputs, create2_twice \in BOOLEAN}

InitAccount == InitWith({(0 :> MempoolConfig({})), (0 :> MempoolConfig(AllKinds))})

NextAccount ==
    \/ SimulateValidation(Ops, {None} \cup {Some(h) : h \in BlockHashes}, {None})
    \/ GetLatestBlockHashReturns(BlockHashes)
    \/ TracerReturns(AccountTracerOutputs, {"Pending"})
    \/ CodeHashReturns({[ok |-> TRUE, hash |-> 8]})

SpecAccount == InitAccount /\ [][NextAccount]_vars

\* ---------------------------------------------------------------- SpecRepeat

\* Call after call on one simulator: an op without and an op with factory and
\* paymaster, and traces that end in a success with and without an
\* aggregator, in gathered violations and in a FailedOp.
RepeatOps ==
    {[sender |-> 2, factory |-> None, paymaster |-> None],
     [sender |-> 2, factory |-> Some(3), paymaster |-> Some(4)]}

RepeatTracerOutputs ==
    {TracerOutput(<<CleanPhase, CleanPhase, CleanPhase>>,
                  Some(ValidationResultPayload(
                      ValidationOutput(FALSE, <<>>, StakedInfo, StakedInfo, StakedInfo, None))),
                  FALSE),
     TracerOutput(<<FactoryStoragePhase, TestAccountPhase, CleanPhase>>,
                  Some(ValidationResultPayload(
                      ValidationOutput(FALSE, <<1>>, StakedInfo, StakedInfo, StakedInfo,
                                       Some(AggregatorInfo(StakedInfo))))),
                  FALSE),
     TracerOutput(<<CleanPhase, BusyPhase, CleanPhase>>,
                  Some(ValidationResultPayload(
                      ValidationOutput(TRUE, <<>>, StakedInfo, StakedInfo, StakedInfo, None))),
                  TRUE),
     TracerOutput(<<CleanPhase>>, Some(FailedOpPayload(1)), FALSE)}

InitRepeat == InitWith({(0 :> MempoolConfig({}))})

NextRepeat ==
    \/ SimulateValidation(RepeatOps, {None} \cup {Some(h) : h \in BlockHashes},
                          {None} \cup {Some(h) : h \in CodeHashes})
    \/ GetLatestBlockHashReturns(BlockHashes)
    \/ TracerFails
    \/ TracerReturns(RepeatTracerOutputs, {"Pending"})
    \/ CodeHashReturns(CodeHashAnswers)
    \/ AggregatorSignatureReturns(AggregatorAnswers)
    \/ Returned
    \/ Switch

SpecRepeat == InitRepeat /\ [][NextRepeat]_vars

\* ---------------------------------------------------------------- SpecMempools

\* A phase in which a call to another contract than the entry point carried
\* value.
ValueFlagPhase == [CleanPhase EXCEPT !.called_non_entry_point_with_value = TRUE]

\* The default configuration, two mempools neither of which allowlists what
\* the other does, and a simulator constructed with no mempool at all.
SplitMempoolConfigs ==
    {(0 :> MempoolConfig({})),
     (0 :> MempoolConfig(AllKinds \ {"NotStaked"})) @@ (1 :> MempoolConfig({"NotStaked"})),
     [id \in {} |-> MempoolConfig({})]}

MempoolTracerOutputs ==
    {TracerOutput(phases,
                  Some(ValidationResultPayload(
                      ValidationOutput(FALSE, paymaster_context, StakedInfo, StakedInfo,
                                       paymaster, None))),
                  FALSE) :
        phases \in [1..3 -> {CleanPhase, ValueFlagPhase}],
        paymaster_context \in {<<>>, <<1>>},
        paymaster \in {StakedInfo, StakeInfo(0, 0)}}

InitMempools == InitWith(SplitMempoolConfigs)

NextMempools ==
    \/ SimulateValidation(Ops, {Some(h) : h \in BlockHashes}, {None})
    \/ TracerReturns(MempoolTracerOutputs, {"Pending"})
    \/ CodeHashReturns({[ok |-> TRUE, hash |-> 8]})

SpecMempools == InitMempools /\ [][NextMempools]_vars

\* ---------------------------------------------------------------- SpecPhase

\* Phases with calls that carry value and with repeated accesses to slots
\* that belong to nobody: value sent by the sender alone, by the sender and a
\* third contract, to another contract than the entry point; the same banned
\* (address, slot) pairs several times, in two different orders.
ValuePhaseChoices ==
    {CleanPhase,
     [CleanPhase EXCEPT !.addresses_calling_with_value = <<2, 2>>],
     [CleanPhase EXCEPT !.addresses_calling_with_value = <<2, 6>>],
     ValueFlagPhase,
     [CleanPhase EXCEPT !.storage_accesses =
        << StorageAccess(6, <<13, 14, 13>>), StorageAccess(5, <<13>>),
           StorageAccess(6, <<14>>) >>],
     [CleanPhase EXCEPT !.storage_accesses =
        << StorageAccess(5, <<13>>), StorageAccess(6, <<14, 13>>),
           StorageAccess(2, <<13>>), StorageAccess(5, <<13>>) >>,
                        !.addresses_calling_with_value = <<2>>]}

PhaseTracerOutputs ==
    {TracerOutput(phases,
                  Some(ValidationResultPayload(
                      ValidationOutput(FALSE, <<>>, StakedInfo, StakedInfo, StakedInfo, None))),
                  FALSE) :
        phases \in [1..3 -> ValuePhaseChoices]}

InitPhase == InitWith({(0 :> MempoolConfig({})), (0 :> MempoolConfig(AllKinds))})

NextPhase ==
    \/ SimulateValidation(Ops, {Some(h) : h \in BlockHashes}, {None})
    \/ TracerReturns(PhaseTracerOutputs, {"Pending"})
    \/ CodeHashReturns({[ok |-> TRUE, hash |-> 8]})

SpecPhase == InitPhase /\ [][NextPhase]_vars

\* ================================================================ properties

\* The tracer has answered; Trace is its answer and NumPhases its number of
\* phases.
Traced == IsSome(tracer_out)

Trace == Unwrap(tracer_out)

NumPhases == Len(Unwrap(tracer_out).phases)

\* The call failed with exactly this list of violations.
FailedWith(list) == result = Some(ViolationsResult(list))

\* revert_data is present and is a well-formed ValidationResult payload.
RevertIsValidationOutput ==
    /\ IsSome(Trace.revert_data)
    /\ Unwrap(Trace.revert_data).selector = "ValidationResult"
    /\ IsSome(Unwrap(Trace.revert_data).data)

\* revert_data is present and is a well-formed FailedOp payload.
RevertIsFailedOp ==
    /\ IsSome(Trace.revert_data)
    /\ Unwrap(Trace.revert_data).selector = "FailedOp"
    /\ IsSome(Unwrap(Trace.revert_data).data)

\* C1: a tracer output with n > 3 phases makes the call fail with exactly
\* [WrongNumberOfPhases(n)], whatever revert_data and the phases are.
C1_TooManyPhases ==
    (Traced /\ NumPhases > 3) => FailedWith(<<WrongNumberOfPhases(NumPhases)>>)

\* C1 happens: four phases, one of them full of findings, and a revert that
\* would decode as a ValidationOutput.
C1_Witness ==
    /\ Traced
    /\ NumPhases = 4
    /\ RevertIsValidationOutput
    /\ BusyPhase \in SeqRange(Trace.phases)
    /\ FailedWith(<<WrongNumberOfPhases(4)>>)

\* C2: with 1 to 3 phases and a revert that decodes as FailedOp(reason) the
\* call fails with exactly [UnintendedRevertWithMessage(e, reason, a)], e the
\* entity of the last phase and a the op's factory, the sender, or the op's
\* paymaster; WrongNumberOfPhases is not reported.
C2_FailedOp ==
    (Traced /\ NumPhases \in 1..3 /\ RevertIsFailedOp) =>
        LET reason == Unwrap(Unwrap(Trace.revert_data).data).reason
            e == CASE NumPhases = 1 -> "Factory"
                   [] NumPhases = 2 -> "Account"
                   [] NumPhases = 3 -> "Paymaster"
            a == CASE NumPhases = 1 -> Unwrap(op).factory
                   [] NumPhases = 2 -> Some(Unwrap(op).sender)
                   [] NumPhases = 3 -> Unwrap(op).paymaster
        IN FailedWith(<<UnintendedRevertWithMessage(e, reason, a)>>)

\* C2 happens: a FailedOp after the factory phase alone, the op having a
\* factory and no paymaster.
C2_Witness ==
    /\ Traced
    /\ NumPhases = 1
    /\ RevertIsFailedOp
    /\ Unwrap(op).factory = Some(3)
    /\ Unwrap(op).paymaster = None
    /\ FailedWith(<<UnintendedRevertWithMessage("Factory", 1, Some(3))>>)

\* C3: with at most 3 phases and no revert_data the call fails with exactly
\* [DidNotRevert], whatever the phases contain.
C3_DidNotRevert ==
    (Traced /\ NumPhases <= 3 /\ ~IsSome(Trace.revert_data)) => FailedWith(<<DidNotRevert>>)

\* C3 happens: three phases, one of them full of findings, and no revert.
C3_Witness ==
    /\ Traced
    /\ NumPhases = 3
    /\ ~IsSome(Trace.revert_data)
    /\ BusyPhase \in SeqRange(Trace.phases)
    /\ FailedWith(<<DidNotRevert>>)

\* C4: with n < 3 phases and a revert that decodes as a ValidationOutput the
\* call fails with exactly [WrongNumberOfPhases(n)], and neither the
\* gatherer, the mempool matcher nor the contract-check stage is reached.
C4_TooFewPhases ==
    (Traced /\ NumPhases < 3 /\ RevertIsValidationOutput) =>
        /\ FailedWith(<<WrongNumberOfPhases(NumPhases)>>)
        /\ ~IsSome(violations)
        /\ ~IsSome(mempools)
        /\ ~IsSome(code_hash_future)
        /\ ~IsSome(aggregator_signature_future)

\* C9: every violation list the call returns as an error is strictly
\* ascending in the order of SimulationViolation: sorted, and without a
\* violation twice.
C9_SortedErrors ==
    (IsSome(result) /\ Unwrap(result).tag = "Violations") =>
        LET list == Unwrap(result).violations
        IN \A i, j \in 1..Len(list) : i < j => ViolationLess(list[i], list[j])

\* C9 happens: the contract-check stage returns two violations.
C9_Witness ==
    /\ IsSome(result)
    /\ Unwrap(result).tag = "Violations"
    /\ Len(Unwrap(result).violations) = 2
    /\ pc = "done"
    /\ IsSome(code_hash_future)

\* The rules of the storage classifier on the arguments a, as the rule table
\* states them: which of the four rules is the first to match.
Rule1(a) == a.accessed_address = a.sender_address

Rule2(a) ==
    /\ ~Rule1(a)
    /\ is_associated_slot(a.slots_by_address, a.sender_address, a.slot)

Rule3(a) ==
    /\ ~Rule1(a)
    /\ ~Rule2(a)
    /\ \/ a.accessed_address = a.entity_address
       \/ is_associated_slot(a.slots_by_address, a.entity_address, a.slot)

Rule4(a) == ~Rule1(a) /\ ~Rule2(a) /\ ~Rule3(a)

\* C5: get_storage_restriction answers as the first-match rule table does:
\* rule 1 Allowed; rule 2 Allowed at the entry point or outside an unstaked
\* wallet creation, else NeedsStake; rule 3 NeedsStake; rule 4 Banned; and
\* exactly one rule applies to every input.
C5_RuleTable ==
    IsSome(restriction) =>
        LET a == Unwrap(restriction_args)
            r == Unwrap(restriction)
        IN /\ Rule1(a) => r = "Allowed"
           /\ Rule2(a) =>
                r = IF \/ a.accessed_address = a.entry_point_address
                       \/ ~a.is_unstaked_wallet_creation
                    THEN "Allowed" ELSE "NeedsStake"
           /\ Rule3(a) => r = "NeedsStake"
           /\ Rule4(a) => r = "Banned"
           /\ Cardinality({n \in 1..4 :
                             \/ n = 1 /\ Rule1(a)
                             \/ n = 2 /\ Rule2(a)
                             \/ n = 3 /\ Rule3(a)
                             \/ n = 4 /\ Rule4(a)}) = 1

\* C5 happens: rule 2 during an unstaked wallet creation, away from the entry
\* point, where the slot is also associated with the entity.
C5_Witness ==
    /\ IsSome(restriction)
    /\ restriction_before = None
    /\ Rule2(Unwrap(restriction_args))
    /\ Unwrap(restriction_args).is_unstaked_wallet_creation
    /\ Unwrap(restriction_args).accessed_address # Unwrap(restriction_args).entry_point_address
    /\ Unwrap(restriction_args).accessed_address = Unwrap(restriction_args).entity_address
    /\ restriction = Some("NeedsStake")

\* C6: with every other argument fixed, changing is_unstaked_wallet_creation
\* from false to true leaves the result unchanged or turns Allowed into
\* NeedsStake.
C6_FlipWeakens ==
    IsSome(restriction_before) =>
        \/ restriction = restriction_before
        \/ restriction_before = Some("Allowed") /\ restriction = Some("NeedsStake")

\* C6 happens: the change turned Allowed into NeedsStake.
C6_Witness ==
    /\ restriction_before = Some("Allowed")
    /\ restriction = Some("NeedsStake")
    /\ Unwrap(restriction_args).is_unstaked_wallet_creation

\* The call returned a SimulationSuccess.
Succeeded == IsSome(result) /\ Unwrap(result).tag = "Ok"

Success == Unwrap(result).success

\* The addresses of the storage accesses of phase i (1, 2, 3) of the trace.
AddressesOfPhase(i) ==
    {Trace.phases[i].storage_accesses[j].address :
        j \in 1..Len(Trace.phases[i].storage_accesses)}

\* Whether the entity of phase i (1 the factory, 2 the account, 3 the
\* paymaster) is present in the op.
EntityPresent(i) ==
    CASE i = 1 -> IsSome(Unwrap(op).factory)
      [] i = 2 -> TRUE
      [] i = 3 -> IsSome(Unwrap(op).paymaster)

\* C7 as stated: on success, accessed_addresses is the union of the addresses
\* of the storage accesses of all three phases, those of an absent entity
\* included.
C7_AllPhases ==
    Succeeded => Success.accessed_addresses = UNION {AddressesOfPhase(i) : i \in 1..3}

\* C7, amended: on success, accessed_addresses is the union of the addresses
\* of the storage accesses of the phases whose entity is present in the op.
C7_PresentPhases ==
    Succeeded =>
        Success.accessed_addresses =
            UNION {AddressesOfPhase(i) : i \in {j \in 1..3 : EntityPresent(j)}}

\* C7 happens: a success for an op without factory whose factory phase
\* accessed storage, its account phase too, at different addresses.
C7_Witness ==
    /\ Succeeded
    /\ ~EntityPresent(1)
    /\ AddressesOfPhase(1) # {}
    /\ AddressesOfPhase(2) # {}
    /\ AddressesOfPhase(1) \cap AddressesOfPhase(2) = {}
    /\ Success.accessed_addresses = AddressesOfPhase(2) \cup
            (IF EntityPresent(3) THEN AddressesOfPhase(3) ELSE {})

\* Some storage access of phase i is classified NeedsStake for the entity of
\* that phase, at address entity_address.
SomeAccessNeedsStake(i, entity_address) ==
    \E j \in 1..Len(Trace.phases[i].storage_accesses) :
       \E k \in 1..Len(Trace.phases[i].storage_accesses[j].slots) :
          get_storage_restriction(GetStorageRestrictionArgs(
              Trace.associated_slots_by_address,
              /\ IsSome(Unwrap(op).factory)
              /\ ~(/\ Unwrap(context).entry_point_out.factory_info.stake
                        >= sim_settings.min_stake_value
                   /\ Unwrap(context).entry_point_out.factory_info.unstake_delay_sec
                        >= sim_settings.min_unstake_delay),
              entry_point_address,
              entity_address,
              Unwrap(op).sender,
              Trace.phases[i].storage_accesses[j].address,
              Trace.phases[i].storage_accesses[j].slots[k])) = "NeedsStake"

PaymasterContextNonEmpty ==
    Unwrap(context).entry_point_out.return_info.paymaster_context # <<>>

\* C8 as stated: on success, Paymaster is in entities_needing_stake iff the
\* paymaster context is non-empty or some access of phase 2 needs stake;
\* Factory iff some access of phase 0 needs stake; Aggregator iff
\* aggregator_info is present.
C8_NeedingStake ==
    Succeeded =>
        LET needing == SeqRange(Success.entities_needing_stake)
        IN /\ "Paymaster" \in needing <=>
                \/ PaymasterContextNonEmpty
                \/ /\ IsSome(Unwrap(op).paymaster)
                   /\ SomeAccessNeedsStake(3, Unwrap(Unwrap(op).paymaster))
           /\ "Factory" \in needing <=>
                /\ IsSome(Unwrap(op).factory)
                /\ SomeAccessNeedsStake(1, Unwrap(Unwrap(op).factory))
           /\ "Aggregator" \in needing <=>
                IsSome(Unwrap(context).entry_point_out.aggregator_info)

\* C8, amended: as stated, but Paymaster is in entities_needing_stake only if
\* the op has a paymaster (and Factory only if the op has a factory).
C8_NeedingStakeOfPresent ==
    Succeeded =>
        LET needing == SeqRange(Success.entities_needing_stake)
        IN /\ "Paymaster" \in needing <=>
                /\ IsSome(Unwrap(op).paymaster)
                /\ \/ PaymasterContextNonEmpty
                   \/ SomeAccessNeedsStake(3, Unwrap(Unwrap(op).paymaster))
           /\ "Factory" \in needing <=>
                /\ IsSome(Unwrap(op).factory)
                /\ SomeAccessNeedsStake(1, Unwrap(Unwrap(op).factory))
           /\ "Aggregator" \in needing <=>
                IsSome(Unwrap(context).entry_point_out.aggregator_info)

\* C8 happens: a success where the paymaster needs stake for its context
\* alone, the factory for a storage access, and there is an aggregator.
C8_Witness ==
    /\ Succeeded
    /\ IsSome(Unwrap(op).paymaster)
    /\ PaymasterContextNonEmpty
    /\ ~SomeAccessNeedsStake(3, Unwrap(Unwrap(op).paymaster))
    /\ Success.entities_needing_stake = <<"Factory", "Paymaster", "Aggregator">>

\* The NotStaked violations of the aggregator among the gathered violations.
AggregatorNotStaked ==
    {i \in 1..Len(Unwrap(violations)) :
        /\ Unwrap(violations)[i].kind = "NotStaked"
        /\ Unwrap(violations)[i].args[1] = EntityTypeOrd("Aggregator")}

\* C10: when the decoded output has an aggregator_info, the gatherer puts
\* Aggregator in entities_needing_stake, and produces exactly one NotStaked
\* for the aggregator (its address, min_stake_value, min_unstake_delay) if the
\* stake_info fails the stake predicate and none if it satisfies it.
C10_AggregatorStake ==
    (IsSome(violations) /\ IsSome(Unwrap(context).entry_point_out.aggregator_info)) =>
        LET info == Unwrap(Unwrap(context).entry_point_out.aggregator_info)
            staked == /\ info.stake_info.stake >= sim_settings.min_stake_value
                      /\ info.stake_info.unstake_delay_sec >= sim_settings.min_unstake_delay
        IN /\ "Aggregator" \in SeqRange(Unwrap(context).entities_needing_stake)
           /\ staked => AggregatorNotStaked = {}
           /\ ~staked =>
                /\ Cardinality(AggregatorNotStaked) = 1
                /\ \A i \in AggregatorNotStaked :
                      Unwrap(violations)[i] =
                          NotStaked(Entity("Aggregator", info.address),
                                    sim_settings.min_stake_value,
                                    sim_settings.min_unstake_delay)

\* C10 happens: an aggregator whose unstake delay is too short, in a call
\* where a phase entity is reported NotStaked as well.
C10_Witness ==
    /\ IsSome(violations)
    /\ IsSome(Unwrap(context).entry_point_out.aggregator_info)
    /\ Unwrap(Unwrap(context).entry_point_out.aggregator_info).stake_info.unstake_delay_sec
          < sim_settings.min_unstake_delay
    /\ Cardinality(AggregatorNotStaked) = 1
    /\ Cardinality({i \in 1..Len(Unwrap(violations)) :
                       Unwrap(violations)[i].kind = "NotStaked"}) > 1

\* Both futures of check_contracts answered Ok, the aggregator's with NotNeeded.
JoinedNotNeeded ==
    /\ IsSome(code_hash_future)
    /\ Unwrap(code_hash_future).ok
    /\ IsSome(aggregator_signature_future)
    /\ Unwrap(aggregator_signature_future).ok
    /\ Unwrap(aggregator_signature_future).out.tag = "NotNeeded"

\* C11: once the contract-check stage has both answers and the aggregator
\* result is NotNeeded, the call fails with exactly [CodeHashChanged] if
\* expected_code_hash is supplied and differs from the digest get_code_hash
\* returned; otherwise it succeeds, CodeHashChanged is not reported and
\* SimulationSuccess.code_hash is that digest.
C11_CodeHash ==
    JoinedNotNeeded =>
        LET digest == Unwrap(code_hash_future).hash
        IN IF IsSome(expected_code_hash) /\ Unwrap(expected_code_hash) # digest
           THEN FailedWith(<<CodeHashChanged>>)
           ELSE Succeeded /\ Success.code_hash = digest

\* C11 happens: the caller expected another digest than the provider returned.
C11_Witness ==
    /\ JoinedNotNeeded
    /\ IsSome(expected_code_hash)
    /\ Unwrap(expected_code_hash) # Unwrap(code_hash_future).hash
    /\ FailedWith(<<CodeHashChanged>>)

\* Every configured mempool allowlists every kind of violation.
AllowsEverything ==
    \A id \in DOMAIN mempool_configs : mempool_configs[id].allowlist = AllKinds

\* The call failed with one violation, of this kind.
FailedWithOne(kind) ==
    /\ IsSome(result)
    /\ Unwrap(result).tag = "Violations"
    /\ Len(Unwrap(result).violations) = 1
    /\ Unwrap(result).violations[1].kind = kind

\* Both futures of check_contracts answered Ok.
JoinedOk ==
    /\ IsSome(code_hash_future)
    /\ Unwrap(code_hash_future).ok
    /\ IsSome(aggregator_signature_future)
    /\ Unwrap(aggregator_signature_future).ok

\* The digest get_code_hash returned is not the expected one.
DigestDiffers ==
    /\ IsSome(expected_code_hash)
    /\ Unwrap(expected_code_hash) # Unwrap(code_hash_future).hash

\* The aggregator's validation reverted.
AggregatorReverted == Unwrap(aggregator_signature_future).out.tag = "ValidationReverted"

\* C12: whatever the mempools allowlist (everything included), a violation of
\* context assembly (WrongNumberOfPhases, DidNotRevert, UnintendedRevert,
\* UnintendedRevertWithMessage) and a violation of the contract-check stage
\* (CodeHashChanged, AggregatorValidationFailed) make the call fail; when both
\* violations of the contract-check stage occur they are returned in one list.
C12_NotAllowlistable ==
    /\ (Traced /\ NumPhases > 3) => FailedWithOne("WrongNumberOfPhases")
    /\ (Traced /\ NumPhases <= 3 /\ ~IsSome(Trace.revert_data)) =>
            FailedWithOne("DidNotRevert")
    /\ (Traced /\ NumPhases \in 1..3 /\ RevertIsFailedOp) =>
            FailedWithOne("UnintendedRevertWithMessage")
    /\ (Traced /\ NumPhases \in 1..3 /\ IsSome(Trace.revert_data)
           /\ ~RevertIsFailedOp /\ ~RevertIsValidationOutput) =>
            FailedWithOne("UnintendedRevert")
    /\ (Traced /\ NumPhases \in 1..2 /\ RevertIsValidationOutput) =>
            FailedWithOne("WrongNumberOfPhases")
    /\ (JoinedOk /\ DigestDiffers /\ ~AggregatorReverted) => FailedWith(<<CodeHashChanged>>)
    /\ (JoinedOk /\ ~DigestDiffers /\ AggregatorReverted) =>
            FailedWith(<<AggregatorValidationFailed>>)
    /\ (JoinedOk /\ DigestDiffers /\ AggregatorReverted) =>
            FailedWith(<<CodeHashChanged, AggregatorValidationFailed>>)

\* C12 happens: every mempool allowlists everything, and both violations of
\* the contract-check stage are returned together.
C12_Witness ==
    /\ AllowsEverything
    /\ JoinedOk
    /\ DigestDiffers
    /\ AggregatorReverted
    /\ FailedWith(<<CodeHashChanged, AggregatorValidationFailed>>)

\* How often v occurs in the sequence s.
Count(s, v) == Cardinality({i \in 1..Len(s) : s[i] = v})

\* C13: the list match_mempools is called on holds the gathered violations,
\* in the order of the enumeration (UsedForbiddenOpcode after InvalidSignature
\* and before CallHadValue); when its answer is NoMatch(i) the call fails with
\* exactly the violation at index i of that list and the contract-check stage
\* is not run; when it is Matches(pools) a success carries pools as mempools.
C13_MatchOnSorted ==
    IsSome(violations) =>
        LET sorted == Unwrap(violations)
            gathered == gather_context_violations(Unwrap(context)).violations
            matched == match_mempools(mempool_configs, sorted)
        IN /\ \A v \in SeqRange(gathered) \cup SeqRange(sorted) :
                 Count(sorted, v) = Count(gathered, v)
           /\ \A i, j \in 1..Len(sorted) :
                 /\ i < j => ViolationOrd(sorted[i].kind) <= ViolationOrd(sorted[j].kind)
                 /\ (sorted[i].kind = "InvalidSignature"
                       /\ sorted[j].kind = "UsedForbiddenOpcode") => i < j
                 /\ (sorted[i].kind = "UsedForbiddenOpcode"
                       /\ sorted[j].kind = "CallHadValue") => i < j
           /\ matched.tag = "NoMatch" =>
                 /\ FailedWith(<<sorted[matched.index + 1]>>)
                 /\ ~IsSome(mempools)
                 /\ ~IsSome(code_hash_future)
                 /\ ~IsSome(aggregator_signature_future)
           /\ (matched.tag = "Matches" /\ Succeeded) => Success.mempools = matched.pools

\* C13 happens: the first two violations of the sorted list are allowlisted,
\* the third is not, and the call fails with the third alone.
C13_Witness ==
    /\ IsSome(violations)
    /\ Len(Unwrap(violations)) > 3
    /\ Unwrap(violations)[1].kind = "InvalidSignature"
    /\ Unwrap(violations)[2].kind = "UsedForbiddenOpcode"
    /\ match_mempools(mempool_configs, Unwrap(violations)) = [tag |-> "NoMatch", index |-> 2]
    /\ FailedWith(<<Unwrap(violations)[3]>>)
    /\ Unwrap(violations)[3].kind = "UsedForbiddenPrecompile"
    /\ \E i \in 1..Len(Unwrap(violations)) : Unwrap(violations)[i].kind = "CallHadValue"

\* C14: a call that returns a SimulationSuccess had a tracer output of
\* exactly 3 phases whose revert_data was present and decoded as a
\* ValidationOutput, not as a FailedOp.
C14_SuccessShape ==
    Succeeded =>
        /\ Traced
        /\ NumPhases = 3
        /\ RevertIsValidationOutput
        /\ ~RevertIsFailedOp

\* C14 happens: a success, after both futures of the contract check answered.
C14_Witness ==
    /\ Succeeded
    /\ NumPhases = 3
    /\ JoinedOk
    /\ Success.code_hash = Unwrap(code_hash_future).hash

\* revert_data is present and decodes neither as FailedOp nor as
\* ValidationOutput.
RevertIsUndecodable ==
    /\ IsSome(Trace.revert_data)
    /\ ~RevertIsFailedOp
    /\ ~RevertIsValidationOutput

\* C20: with 1 to 3 phases and a revert_data that decodes neither as FailedOp
\* nor as ValidationOutput the call fails with exactly [UnintendedRevert(e)],
\* e the entity of the last phase: Factory for 1 phase, Account for 2,
\* Paymaster for 3.
C20_UnintendedRevert ==
    (Traced /\ NumPhases \in 1..3 /\ RevertIsUndecodable) =>
        FailedWith(<<UnintendedRevert(CASE NumPhases = 1 -> "Factory"
                                        [] NumPhases = 2 -> "Account"
                                        [] NumPhases = 3 -> "Paymaster")>>)

\* C20 happens: two phases and a truncated ValidationResult payload.
C20_Witness ==
    /\ Traced
    /\ NumPhases = 2
    /\ Trace.revert_data = Some([selector |-> "ValidationResult", data |-> None])
    /\ FailedWith(<<UnintendedRevert("Account")>>)

\* sender_info of the ValidationOutput the revert decoded as.
SenderInfo == Unwrap(Unwrap(Trace.revert_data).data).sender_info

\* C15: on success, account_is_staked is true exactly when sender_info.stake
\* is at least min_stake_value and sender_info.unstake_delay_sec at least
\* min_unstake_delay, whether or not the account phase needed stake and
\* whatever the stake of the factory and the paymaster.
C15_AccountIsStaked ==
    Succeeded =>
        (Success.account_is_staked <=>
            /\ SenderInfo.stake >= sim_settings.min_stake_value
            /\ SenderInfo.unstake_delay_sec >= sim_settings.min_unstake_delay)

\* C15 happens: the sender's stake and delay are exactly the thresholds, the
\* account phase needed stake and the factory is not staked.
C15_Witness ==
    /\ Succeeded
    /\ SenderInfo = StakeInfo(sim_settings.min_stake_value, sim_settings.min_unstake_delay)
    /\ Success.account_is_staked
    /\ "Account" \in SeqRange(Success.entities_needing_stake)
    /\ IsSome(Unwrap(op).factory)
    /\ Unwrap(Unwrap(Trace.revert_data).data).factory_info = StakeInfo(0, 0)

\* The FactoryCalledCreate2Twice violations among the gathered violations.
Create2Twice ==
    {i \in 1..Len(Unwrap(violations)) :
        Unwrap(violations)[i].kind = "FactoryCalledCreate2Twice"}

\* C16: when the tracer reports factory_called_create2_twice the gatherer
\* produces exactly one FactoryCalledCreate2Twice, carrying the op's factory
\* address if the op has a factory and the entry point's address if not; when
\* the flag is false it produces none.
C16_Create2Twice ==
    IsSome(violations) =>
        IF Trace.factory_called_create2_twice
        THEN /\ Cardinality(Create2Twice) = 1
             /\ \A i \in Create2Twice :
                   Unwrap(violations)[i].args =
                       <<IF IsSome(Unwrap(op).factory)
                         THEN Unwrap(Unwrap(op).factory) ELSE entry_point_address>>
        ELSE Create2Twice = {}

\* C16 happens: CREATE2 was called twice for an op with a factory, among
\* other violations.
C16_Witness ==
    /\ IsSome(violations)
    /\ Trace.factory_called_create2_twice
    /\ Unwrap(op).factory = Some(3)
    /\ Len(Unwrap(violations)) > 1
    /\ \E i \in 1..Len(Unwrap(violations)) :
          Unwrap(violations)[i] = [kind |-> "FactoryCalledCreate2Twice", args |-> <<3>>]

\* The account phase of the trace makes no finding but calls with value from
\* the sender, accesses of the sender's own storage and accesses of
\* sender-associated slots in the entry point.
AccountPhaseAsInTest ==
    LET phase == Trace.phases[2]
        sender == Unwrap(op).sender
    IN /\ phase.forbidden_opcodes_used = <<>>
       /\ phase.forbidden_precompiles_used = <<>>
       /\ ~phase.called_non_entry_point_with_value
       /\ ~phase.called_banned_entry_point_method
       /\ ~phase.ran_out_of_gas
       /\ phase.undeployed_contract_accesses = <<>>
       /\ \A i \in 1..Len(phase.addresses_calling_with_value) :
             phase.addresses_calling_with_value[i] = sender
       /\ \A i \in 1..Len(phase.storage_accesses) :
             \/ phase.storage_accesses[i].address = sender
             \/ /\ phase.storage_accesses[i].address = entry_point_address
                /\ \A k \in 1..Len(phase.storage_accesses[i].slots) :
                      /\ sender \in DOMAIN Trace.associated_slots_by_address
                      /\ phase.storage_accesses[i].slots[k]
                            \in Trace.associated_slots_by_address[sender]

\* The call of tests::test_simulate_validation: the default mempool, an op
\* without factory and paymaster, three phases, a ValidationOutput without
\* signature failure and aggregator, a single CREATE2 at most.
TestScenario ==
    /\ mempool_configs = (0 :> MempoolConfig({}))
    /\ Traced
    /\ Unwrap(op).factory = None
    /\ Unwrap(op).paymaster = None
    /\ NumPhases = 3
    /\ RevertIsValidationOutput
    /\ ~Unwrap(Unwrap(Trace.revert_data).data).return_info.sig_failed
    /\ Unwrap(Unwrap(Trace.revert_data).data).aggregator_info = None
    /\ ~Trace.factory_called_create2_twice
    /\ AccountPhaseAsInTest

\* C19: in that call nothing is gathered, the contract check is reached, and,
\* the code hash and the aggregator check raising nothing, the call returns
\* Ok with empty entities_needing_stake, whether the account is staked or not.
C19_TestAdmitted ==
    TestScenario =>
        /\ violations = Some(<<>>)
        /\ pc \in {"contracts", "done"}
        /\ pc = "done" =>
              /\ Succeeded
              /\ Success.entities_needing_stake = <<>>
              /\ Success.mempools = <<0>>

\* C19 happens: the test's account phase and an account whose stake is below
\* the threshold.
C19_Witness ==
    /\ TestScenario
    /\ Trace.phases[2] = TestAccountPhase
    /\ SenderInfo.stake < sim_settings.min_stake_value
    /\ Succeeded
    /\ ~Success.account_is_staked
    /\ Success.entities_needing_stake = <<>>

\* An external call of the running simulate_validation failed:
\* get_latest_block_hash, the tracer call, get_code_hash or
\* validate_user_op_signature.
ExternalCallFailed ==
    \/ pc = "done" /\ ~IsSome(block_hash)
    \/ pc = "done" /\ IsSome(block_hash) /\ ~Traced
    \/ IsSome(code_hash_future) /\ ~Unwrap(code_hash_future).ok
    \/ IsSome(aggregator_signature_future) /\ ~Unwrap(aggregator_signature_future).ok

\* C17: when an external call fails the call returns ViolationError::Other,
\* and every call that has ended returned a SimulationSuccess, a list of
\* violations or Other.
C17_OtherOrOutcome ==
    /\ ExternalCallFailed => result = Some(OtherResult)
    /\ pc = "done" =>
          /\ IsSome(result)
          /\ Unwrap(result).tag \in {"Ok", "Violations", "Other"}

\* The call that has ended had the arguments of the remembered earlier call
\* and got the same answers from the provider and the tracer.
SameCallAsPrevious ==
    /\ IsSome(previous)
    /\ pc = "done"
    /\ Unwrap(previous).pc = "done"
    /\ op = Unwrap(previous).op
    /\ block_hash = Unwrap(previous).block_hash
    /\ expected_code_hash = Unwrap(previous).expected_code_hash
    /\ tracer_out = Unwrap(previous).tracer_out
    /\ code_hash_future = Unwrap(previous).code_hash_future
    /\ aggregator_signature_future = Unwrap(previous).aggregator_signature_future

C21_NeverAborts ==
    Traced =>
        \/ IsSome(context)
        \/ IsSome(result) /\ Unwrap(result).tag = "Violations"

\* C22: no SimulationSuccess carries an empty list of mempools: when no
\* mempool matches, the operation is not admitted.
C22_SomeMempool ==
    Succeeded => Success.mempools # <<>>

\* The call reached the contract-check stage: check_contracts was called.
ContractStage == IsSome(mempools)

CodeHashFailed == IsSome(code_hash_future) /\ ~Unwrap(code_hash_future).ok

AggregatorFailed ==
    IsSome(aggregator_signature_future) /\ ~Unwrap(aggregator_signature_future).ok

\* What the two answers decide, in the order the code examines them.
AnswersDecide ==
    LET found ==
            (IF DigestDiffers THEN <<CodeHashChanged>> ELSE <<>>)
            \o (IF AggregatorReverted THEN <<AggregatorValidationFailed>> ELSE <<>>)
    IN IF found # <<>> THEN result = Some(ViolationsResult(found)) ELSE Succeeded

AggregatorInfoDecoded ==
    IsSome(context) /\ IsSome(Unwrap(context).entry_point_out.aggregator_info)

SignatureValidationCalled == "validate_user_op_signature" \in provider_calls

\* The aggregator answered Ok(ValidationReverted) and the call has returned.
RevertedAndDone ==
    /\ pc = "done"
    /\ IsSome(aggregator_signature_future)
    /\ Unwrap(aggregator_signature_future).ok
    /\ AggregatorReverted

ReportsAggregatorValidationFailed ==
    /\ IsSome(result)
    /\ Unwrap(result).tag = "Violations"
    /\ \E i \in DOMAIN Unwrap(result).violations :
          Unwrap(result).violations[i] = AggregatorValidationFailed

\* Success.aggregator is the info of a SuccessWithInfo answer and is absent
\* after any other answer.
AggregatorOfAnswer ==
    Succeeded =>
        Success.aggregator =
            IF Unwrap(aggregator_signature_future).out.tag = "SuccessWithInfo"
            THEN Some(Unwrap(aggregator_signature_future).out.info)
            ELSE None

\* C24: provider.validate_user_op_signature is called if and only if the
\* decoded ValidationOutput has an aggregator_info and the call reached the
\* contract-check stage; Success.aggregator is present if and only if the
\* answer was SuccessWithInfo(info), and is info; a ValidationReverted answer
\* always fails the call with AggregatorValidationFailed.
C24_CalledIffNeeded ==
    /\ SignatureValidationCalled <=> (AggregatorInfoDecoded /\ ContractStage)
    /\ AggregatorOfAnswer
    /\ RevertedAndDone => ReportsAggregatorValidationFailed

\* C24 as amended: provider.validate_user_op_signature is called only if the
\* decoded ValidationOutput has an aggregator_info and the call reached the
\* contract-check stage, and is called then unless get_code_hash returned an
\* error; Success.aggregator is present if and only if the answer was
\* SuccessWithInfo(info), and is info; a ValidationReverted answer fails the
\* call with a list that holds AggregatorValidationFailed when get_code_hash
\* answered Ok, and with ViolationError::Other when it returned an error.
C24_CalledWhenNeeded ==
    /\ SignatureValidationCalled => (AggregatorInfoDecoded /\ ContractStage)
    /\ (AggregatorInfoDecoded /\ ContractStage /\ ~CodeHashFailed) => SignatureValidationCalled
    /\ AggregatorOfAnswer
    /\ RevertedAndDone =>
          IF CodeHashFailed
          THEN result = Some(OtherResult)
          ELSE ReportsAggregatorValidationFailed

\* C24 happens: the aggregator was asked, answered SuccessWithInfo, and the
\* success carries its info.
C24_Witness ==
    /\ Succeeded
    /\ SignatureValidationCalled
    /\ AggregatorInfoDecoded
    /\ Unwrap(aggregator_signature_future).out.tag = "SuccessWithInfo"
    /\ IsSome(Success.aggregator)

\* The entity of phase i (1 the factory, 2 the account, 3 the paymaster).
PhaseKind(i) ==
    CASE i = 1 -> "Factory"
      [] i = 2 -> "Account"
      [] i = 3 -> "Paymaster"

PhaseEntityAddress(i) ==
    CASE i = 1 -> Unwrap(Unwrap(op).factory)
      [] i = 2 -> Unwrap(op).sender
      [] i = 3 -> Unwrap(Unwrap(op).paymaster)

\* The stake the entry point reported for the entity of phase i.
PhaseStakeInfo(i) ==
    CASE i = 1 -> Unwrap(context).entry_point_out.factory_info
      [] i = 2 -> Unwrap(context).entry_point_out.sender_info
      [] i = 3 -> Unwrap(context).entry_point_out.paymaster_info

PhaseEntityStaked(i) ==
    /\ PhaseStakeInfo(i).stake >= sim_settings.min_stake_value
    /\ PhaseStakeInfo(i).unstake_delay_sec >= sim_settings.min_unstake_delay

\* The positions, among the gathered violations, of those of the given kind
\* that carry the entity of phase i.
GatheredOf(kind, i) ==
    {j \in 1..Len(Unwrap(violations)) :
        /\ Unwrap(violations)[j].kind = kind
        /\ Unwrap(violations)[j].args[1] = EntityTypeOrd(PhaseKind(i))}

\* Phase i needs stake: an access classified NeedsStake, or the paymaster
\* phase with a non-empty paymaster_context.
PhaseOfEntityNeedsStake(i) ==
    \/ SomeAccessNeedsStake(i, PhaseEntityAddress(i))
    \/ i = 3 /\ PaymasterContextNonEmpty

\* The factory phase accesses a sender-associated slot at an address that is
\* neither the sender nor the entry point.
FactoryTouchesSenderSlotElsewhere ==
    \E j \in 1..Len(Trace.phases[1].storage_accesses) :
       \E k \in 1..Len(Trace.phases[1].storage_accesses[j].slots) :
          /\ Trace.phases[1].storage_accesses[j].address
                \notin {Unwrap(op).sender, entry_point_address}
          /\ is_associated_slot(Trace.associated_slots_by_address, Unwrap(op).sender,
                                Trace.phases[1].storage_accesses[j].slots[k])

\* C25: for each phase whose entity is present, the gathered violations hold
\* NotStaked(entity, min_stake_value, min_unstake_delay) exactly once if the
\* phase needs stake and the entity is not staked, and no NotStaked of that
\* entity otherwise; with a present, unstaked factory whose phase accesses a
\* sender-associated slot at an address that is neither the sender nor the
\* entry point, NotStaked(Factory) is there and Factory is in
\* entities_needing_stake.
C25_NotStaked ==
    IsSome(violations) =>
        /\ \A i \in 1..3 :
              EntityPresent(i) =>
                 IF PhaseOfEntityNeedsStake(i) /\ ~PhaseEntityStaked(i)
                 THEN /\ Cardinality(GatheredOf("NotStaked", i)) = 1
                      /\ \A j \in GatheredOf("NotStaked", i) :
                            Unwrap(violations)[j] =
                                NotStaked(Entity(PhaseKind(i), PhaseEntityAddress(i)),
                                          sim_settings.min_stake_value,
                                          sim_settings.min_unstake_delay)
                 ELSE GatheredOf("NotStaked", i) = {}
        /\ (EntityPresent(1) /\ ~PhaseEntityStaked(1) /\ FactoryTouchesSenderSlotElsewhere) =>
              /\ GatheredOf("NotStaked", 1) # {}
              /\ "Factory" \in SeqRange(Unwrap(context).entities_needing_stake)

\* C25 happens: an unstaked factory whose phase accesses a sender-associated
\* slot at a third address, and a staked paymaster with a context: one
\* NotStaked, for the factory.
C25_Witness ==
    /\ IsSome(violations)
    /\ EntityPresent(1) /\ ~PhaseEntityStaked(1) /\ FactoryTouchesSenderSlotElsewhere
    /\ Cardinality(GatheredOf("NotStaked", 1)) = 1
    /\ EntityPresent(3) /\ PhaseEntityStaked(3) /\ PaymasterContextNonEmpty
    /\ GatheredOf("NotStaked", 3) = {}
    /\ "Paymaster" \in SeqRange(Unwrap(context).entities_needing_stake)

\* The variants of SimulationViolation whose first field is an Entity.
EntityCarryingKinds ==
    {"UsedForbiddenOpcode", "UsedForbiddenPrecompile", "NotStaked", "InvalidStorageAccess",
     "CallHadValue", "CalledBannedEntryPointMethod", "OutOfGas", "AccessedUndeployedContract"}

\* The gathered violations that carry the entity of phase i.
GatheredCarrying(i) == UNION {GatheredOf(kind, i) : kind \in EntityCarryingKinds}

\* C26: when the op has no factory (no paymaster), the gathered violations
\* hold none that carries a Factory (Paymaster) entity and Factory
\* (Paymaster) is not in entities_needing_stake, whatever phase 0 (phase 2)
\* reports.
C26_AbsentEntitySkipped ==
    IsSome(violations) =>
        \A i \in {1, 3} :
           ~EntityPresent(i) =>
              /\ GatheredCarrying(i) = {}
              /\ PhaseKind(i) \notin SeqRange(Unwrap(context).entities_needing_stake)

\* C26 happens: an op with neither factory nor paymaster whose factory and
\* paymaster phases report a finding of every kind, with a non-empty
\* paymaster_context; only the account phase is looked at.
C26_Witness ==
    /\ IsSome(violations)
    /\ ~EntityPresent(1) /\ Trace.phases[1] = BusyPhase
    /\ ~EntityPresent(3) /\ Trace.phases[3] = BusyPhase
    /\ PaymasterContextNonEmpty
    /\ GatheredCarrying(2) # {}
    /\ GatheredCarrying(1) = {}
    /\ GatheredCarrying(3) = {}

\* An unstaked wallet creation: the op has a factory and it is not staked.
UnstakedWalletCreation == EntityPresent(1) /\ ~PhaseEntityStaked(1)

\* The account phase accesses storage at an address other than the sender.
AccountAccessesElsewhere ==
    \E j \in 1..Len(Trace.phases[2].storage_accesses) :
        /\ Trace.phases[2].storage_accesses[j].address # Unwrap(op).sender
        /\ Trace.phases[2].storage_accesses[j].slots # <<>>

\* C29: an access of the account phase is classified NeedsStake only during
\* an unstaked wallet creation; so for an op without factory, or with a staked
\* factory, Account is not in entities_needing_stake and the gathered
\* violations hold no NotStaked of the account.
C29_AccountNeedsNoStake ==
    IsSome(violations) =>
        /\ SomeAccessNeedsStake(2, Unwrap(op).sender) => UnstakedWalletCreation
        /\ ~UnstakedWalletCreation =>
              /\ "Account" \notin SeqRange(Unwrap(context).entities_needing_stake)
              /\ GatheredOf("NotStaked", 2) = {}

\* C29 happens: no unstaked wallet creation, an unstaked account whose phase
\* accesses a sender-associated slot at a third address and other storage
\* elsewhere: Account needs no stake.
C29_Witness ==
    /\ IsSome(violations)
    /\ EntityPresent(1) /\ PhaseEntityStaked(1)
    /\ ~PhaseEntityStaked(2)
    /\ Trace.phases[2].storage_accesses = << StorageAccess(6, <<10>>) >>
    /\ AccountAccessesElsewhere
    /\ "Account" \notin SeqRange(Unwrap(context).entities_needing_stake)
    /\ GatheredOf("NotStaked", 2) = {}

\* Phase i reports a call with value by another address than the sender.
NonSenderCalledWithValue(i) ==
    \E j \in 1..Len(Trace.phases[i].addresses_calling_with_value) :
        Trace.phases[i].addresses_calling_with_value[j] # Unwrap(op).sender

\* C27: for each phase whose entity is present, the gathered violations hold
\* CallHadValue(entity) exactly once if some address in
\* addresses_calling_with_value differs from the sender or
\* called_non_entry_point_with_value is set, and not at all otherwise: value
\* calls by the sender alone never produce it.
C27_CallHadValue ==
    IsSome(violations) =>
        \A i \in 1..3 :
           EntityPresent(i) =>
              IF \/ NonSenderCalledWithValue(i)
                 \/ Trace.phases[i].called_non_entry_point_with_value
              THEN /\ Cardinality(GatheredOf("CallHadValue", i)) = 1
                   /\ \A j \in GatheredOf("CallHadValue", i) :
                         Unwrap(violations)[j] =
                             CallHadValue(Entity(PhaseKind(i), PhaseEntityAddress(i)))
              ELSE GatheredOf("CallHadValue", i) = {}

\* C27 happens: the factory phase sends value from the sender alone, the
\* account phase from the sender and a third contract, the paymaster phase
\* to another contract than the entry point: CallHadValue for the account
\* and the paymaster only.
C27_Witness ==
    /\ IsSome(violations)
    /\ EntityPresent(1) /\ EntityPresent(3)
    /\ Trace.phases[1].addresses_calling_with_value = <<2, 2>>
    /\ Trace.phases[2].addresses_calling_with_value = <<2, 6>>
    /\ Trace.phases[3].called_non_entry_point_with_value
    /\ Unwrap(violations) =
          << CallHadValue(Entity("Account", 2)), CallHadValue(Entity("Paymaster", 4)) >>

\* The (address, slot) pairs phase i accesses that are classified Banned for
\* its entity, in the order of the accesses, repetitions included.
BannedAccesses(i) ==
    SelectSeq(StorageSlotsOf(Trace.phases[i].storage_accesses),
              LAMBDA storage_slot :
                 get_storage_restriction(GetStorageRestrictionArgs(
                     Trace.associated_slots_by_address,
                     UnstakedWalletCreation,
                     entry_point_address,
                     PhaseEntityAddress(i),
                     Unwrap(op).sender,
                     storage_slot.address,
                     storage_slot.slot)) = "Banned")

\* The InvalidStorageAccess violations of the entity of phase i, in the order
\* in which the gatherer returns them (before simulate_validation sorts).
EmittedInvalidAccesses(i) ==
    SelectSeq(gather_context_violations(Unwrap(context)).violations,
              LAMBDA violation :
                 /\ violation.kind = "InvalidStorageAccess"
                 /\ violation.args[1] = EntityTypeOrd(PhaseKind(i)))

\* The position of the first occurrence of x in the sequence s.
FirstPosition(s, x) == CHOOSE j \in 1..Len(s) : s[j] = x /\ \A k \in 1..(j - 1) : s[k] # x

\* C28: within a phase every (address, slot) pair classified Banned yields
\* exactly one InvalidStorageAccess(entity, slot), however often the pair is
\* accessed, and nothing else yields one; they are emitted in the order of
\* the pairs' first occurrences; a pair banned in two phases yields one
\* violation for each.
C28_BannedOncePerPhase ==
    IsSome(violations) =>
        \A i \in 1..3 :
           EntityPresent(i) =>
              \E emitted \in {EmittedInvalidAccesses(i)} :
              \E banned \in {BannedAccesses(i)} :
                 /\ Len(emitted) = Cardinality(SeqRange(banned))
                 /\ Cardinality(GatheredOf("InvalidStorageAccess", i)) = Len(emitted)
                 /\ \A x \in SeqRange(banned) :
                       Cardinality({j \in 1..Len(emitted) :
                           emitted[j] = InvalidStorageAccess(
                               Entity(PhaseKind(i), PhaseEntityAddress(i)), x)}) = 1
                 /\ \A x, y \in SeqRange(banned) :
                       FirstPosition(banned, x) < FirstPosition(banned, y) =>
                          FirstPosition(emitted, InvalidStorageAccess(
                                Entity(PhaseKind(i), PhaseEntityAddress(i)), x))
                          < FirstPosition(emitted, InvalidStorageAccess(
                                Entity(PhaseKind(i), PhaseEntityAddress(i)), y))

\* C28 happens: the factory and the account phase access the same banned
\* pairs, some of them several times and in an order that is not the sorted
\* one: three violations for each phase, in first-occurrence order.
C28_Witness ==
    /\ IsSome(violations)
    /\ EntityPresent(1)
    /\ Trace.phases[1].storage_accesses =
          << StorageAccess(6, <<13, 14, 13>>), StorageAccess(5, <<13>>),
             StorageAccess(6, <<14>>) >>
    /\ Trace.phases[2].storage_accesses = Trace.phases[1].storage_accesses
    /\ EmittedInvalidAccesses(1) =
          << InvalidStorageAccess(Entity("Factory", 3), [address |-> 6, slot |-> 13]),
             InvalidStorageAccess(Entity("Factory", 3), [address |-> 6, slot |-> 14]),
             InvalidStorageAccess(Entity("Factory", 3), [address |-> 5, slot |-> 13]) >>
    /\ Len(EmittedInvalidAccesses(2)) = 3
    /\ Cardinality(GatheredOf("InvalidStorageAccess", 1)) = 3

=============================================================================
